---- MODULE Spec2Model ----
(***************************************************************************)
(* The in-memory document collection (package memdocstore) and the driver  *)
(* contract it implements: the collection's document map and revision      *)
(* counter, the six action kinds of runAction, the revision check, the     *)
(* two-phase update, and RunActions' grouped concurrent execution.         *)
(***************************************************************************)
EXTENDS Integers, Sequences, FiniteSets, TLC

(***************************************************************************)
(* Bounds of the model.                                                    *)
(***************************************************************************)
\* Writes are enabled while curRevision < MaxRev.
MaxRev == 2
\* Longest action list handed to the concurrent RunActions.
MaxActions == 3
\* Largest Options.MaxOutstandingActionRPCs (0: no limit).
MaxOutstanding == 2

(***************************************************************************)
(* Encoded values: a tagged sum.  A field that is absent from a map reads  *)
(* as Nil.                                                                 *)
(***************************************************************************)
Nil == [t |-> "nil", v |-> 0]
Int64(n) == [t |-> "int64", v |-> n]
Float64(n) == [t |-> "float64", v |-> n]
Str(s) == [t |-> "string", v |-> s]
MapVal(m) == [t |-> "map", v |-> m]
IncOp(amount) == [t |-> "IncOp", v |-> amount]
\* A Go value outside the encoded taxonomy (a channel).
Chan == [t |-> "chan", v |-> 0]

\* gcerr error codes
OK == "OK"
NotFound == "NotFound"
AlreadyExists == "AlreadyExists"
InvalidArgument == "InvalidArgument"
FailedPrecondition == "FailedPrecondition"
Internal == "Internal"

\* driver.ActionKind
Create == "Create"
Replace == "Replace"
Put == "Put"
Get == "Get"
Delete == "Delete"
Update == "Update"

\* drivertest.KeyField, docstore.DefaultRevisionField
KeyField == "name"
RevisionField == "DocstoreRevision"

(***************************************************************************)
(* Maps (map[string]interface{} and the collection's docs map) are         *)
(* functions; a nil map is the function with the empty domain.             *)
(***************************************************************************)
NilMap == [f \in {} |-> Nil]
GetField(m, f) == IF f \in DOMAIN m THEN m[f] ELSE Nil
SetField(m, f, val) == [x \in DOMAIN m \cup {f} |-> IF x = f THEN val ELSE m[x]]
DeleteField(m, f) == [x \in DOMAIN m \ {f} |-> m[x]]

\* collection.Key for a collection opened with a key field
Key(doc) == GetField(doc, KeyField)

(***************************************************************************)
(* The codec (encodeDoc, decodeDoc, encodeValue).  Encoding maps a Go int  *)
(* to int64 and keeps a value that is already in the encoded taxonomy.     *)
(* Decoding with no field paths copies every stored field into the         *)
(* caller's document and keeps the caller's other fields.                  *)
(***************************************************************************)
encodeValue(val) == IF val.t = "int" THEN Int64(val.v) ELSE val
encodeDoc(doc) == [f \in DOMAIN doc |-> encodeValue(doc[f])]
\* The errors of encodeValue and encodeDoc (OK: none).
encodeValueError(val) == IF val.t = "chan" THEN InvalidArgument ELSE OK
encodeDocError(doc) ==
    IF \E f \in DOMAIN doc : encodeValueError(doc[f]) # OK THEN InvalidArgument ELSE OK
\* Document.SetField of the caller's document, whose error runAction ignores.
DocSetField(doc, f, val) == SetField(doc, f, val)
\* Document.Decode: the fields of m are set in the caller's document, whose
\* other fields stay.
Decode(m, doc) ==
    [f \in DOMAIN doc \cup DOMAIN m |-> IF f \in DOMAIN m THEN m[f] ELSE doc[f]]

(***************************************************************************)
(* add: the sum of two encoded numbers, by the types of its operands.      *)
(***************************************************************************)
\* add that keeps the type of its left operand.
add_NoPromote(x, y) ==
    IF x = Nil THEN [err |-> OK, val |-> y]
    ELSE IF x.t \in {"int64", "float64"}
    THEN IF y.t \in {"int64", "float64"} THEN [err |-> OK, val |-> [t |-> x.t, v |-> x.v + y.v]]
         ELSE [err |-> Internal, val |-> Nil]
    ELSE [err |-> InvalidArgument, val |-> Nil]

add(x, y) ==
    IF x = Nil THEN [err |-> OK, val |-> y]
    ELSE IF x.t = "int64"
    THEN IF y.t = "int64" THEN [err |-> OK, val |-> Int64(x.v + y.v)]
         ELSE IF y.t = "float64" THEN [err |-> OK, val |-> Float64(x.v + y.v)]
         ELSE [err |-> Internal, val |-> Nil]
    ELSE IF x.t = "float64"
    THEN IF y.t = "int64" THEN [err |-> OK, val |-> Float64(x.v + y.v)]
         ELSE IF y.t = "float64" THEN [err |-> OK, val |-> Float64(x.v + y.v)]
         ELSE [err |-> Internal, val |-> Nil]
    ELSE [err |-> InvalidArgument, val |-> Nil]

(***************************************************************************)
(* changeRevision: pre-increments the counter and stamps it on the         *)
(* document.  c is the collection, [docs, curRevision].                    *)
(***************************************************************************)
\* changeRevision that stamps the counter without advancing it.
changeRevision_NoIncrement(c, doc) ==
    [curRevision |-> c.curRevision,
     doc |-> SetField(doc, RevisionField, Int64(c.curRevision))]

\* changeRevision that stamps the counter's value from before the increment.
changeRevision_StampOld(c, doc) ==
    [curRevision |-> c.curRevision + 1,
     doc |-> SetField(doc, RevisionField, Int64(c.curRevision))]

changeRevision(c, doc) ==
    [curRevision |-> c.curRevision + 1,
     doc |-> SetField(doc, RevisionField, Int64(c.curRevision + 1))]

(***************************************************************************)
(* checkRevision: the error code of the revision check of the incoming     *)
(* document arg against the stored document current (NilMap when the key   *)
(* is absent).                                                             *)
(***************************************************************************)
\* checkRevision that does not compare the two revisions.
checkRevision_NoCompare(arg, current) ==
    IF DOMAIN current = {} THEN OK
    ELSE LET r == GetField(arg, RevisionField)
         IN  IF r = Nil THEN OK
             ELSE IF r.t # "int64" THEN InvalidArgument
             ELSE OK

checkRevision(arg, current) ==
    IF DOMAIN current = {} THEN OK
    ELSE LET curRev == current[RevisionField]
             r == GetField(arg, RevisionField)
         IN  IF r = Nil THEN OK
             ELSE IF r.t # "int64" THEN InvalidArgument
             ELSE IF r # curRev THEN FailedPrecondition
             ELSE OK

(***************************************************************************)
(* getParentMap with create = false: the map that directly holds the last  *)
(* component of fp.  isNil: a component on the way is absent, and the      *)
(* parent map is nil.  path: the components leading to the parent map.     *)
(***************************************************************************)
RECURSIVE getParentMap(_, _)
getParentMap(m, fp) ==
    IF Len(fp) = 1 THEN [err |-> OK, isNil |-> FALSE, m |-> m]
    ELSE LET k == Head(fp)
         IN  IF GetField(m, k) = Nil THEN [err |-> OK, isNil |-> TRUE, m |-> NilMap]
             ELSE IF m[k].t # "map"
             THEN [err |-> InvalidArgument, isNil |-> FALSE, m |-> NilMap]
             ELSE getParentMap(m[k].v, Tail(fp))

\* getAtFieldPath: the value of m at fp, nil when the parent map or the
\* value is missing.
getAtFieldPath_TopLevel(m, fp) == [err |-> OK, val |-> GetField(m, Head(fp))]
getAtFieldPath(m, fp) ==
    IF getParentMap(m, fp).err # OK THEN [err |-> getParentMap(m, fp).err, val |-> Nil]
    ELSE IF getParentMap(m, fp).isNil THEN [err |-> OK, val |-> Nil]
    ELSE [err |-> OK, val |-> GetField(getParentMap(m, fp).m, fp[Len(fp)])]

\* setAtFieldPath: m with the value at fp set to val, the maps on the way
\* created as needed (getParentMap with create); a nil value reads as an
\* absent field.
\* m with the value at field path fp set to val (val = Nil: the key deleted);
\* the maps on the way exist.
RECURSIVE WriteAt(_, _, _)
WriteAt(m, fp, val) ==
    IF Len(fp) = 1
    THEN IF val = Nil THEN DeleteField(m, Head(fp)) ELSE SetField(m, Head(fp), val)
    ELSE SetField(m, Head(fp), MapVal(WriteAt(m[Head(fp)].v, Tail(fp), val)))

\* A setAtFieldPath that asks getParentMap for the parent map without create.
setAtFieldPath_NoCreate(m, fp, val) ==
    IF getParentMap(m, fp).err # OK THEN [err |-> getParentMap(m, fp).err, m |-> m]
    ELSE IF getParentMap(m, fp).isNil THEN [err |-> OK, m |-> m]
    ELSE [err |-> OK, m |-> WriteAt(m, fp, val)]
RECURSIVE setAtFieldPath(_, _, _)
setAtFieldPath(m, fp, val) ==
    IF Len(fp) = 1
    THEN [err |-> OK,
          m |-> IF val = Nil THEN DeleteField(m, Head(fp)) ELSE SetField(m, Head(fp), val)]
    ELSE IF GetField(m, Head(fp)) = Nil
    THEN [err |-> OK,
          m |-> SetField(m, Head(fp), MapVal(setAtFieldPath(NilMap, Tail(fp), val).m))]
    ELSE IF m[Head(fp)].t # "map" THEN [err |-> InvalidArgument, m |-> m]
    ELSE [err |-> setAtFieldPath(m[Head(fp)].v, Tail(fp), val).err,
          m |-> SetField(m, Head(fp), MapVal(setAtFieldPath(m[Head(fp)].v, Tail(fp), val).m))]

\* decodeDoc: with no field paths the whole stored document is decoded into
\* the caller's; with field paths, a document that has the values at those
\* paths and at the key and revision fields; a path with no value in the
\* stored document adds nothing.
RECURSIVE projectFields(_, _, _)
projectFields(m, fps, m2) ==
    IF fps = <<>> THEN [err |-> OK, m |-> m2]
    ELSE IF getAtFieldPath(m, Head(fps)).err # OK
    THEN [err |-> getAtFieldPath(m, Head(fps)).err, m |-> m2]
    ELSE IF getAtFieldPath(m, Head(fps)).val = Nil THEN projectFields(m, Tail(fps), m2)
    ELSE IF setAtFieldPath(m2, Head(fps), getAtFieldPath(m, Head(fps)).val).err # OK
    THEN [err |-> InvalidArgument, m |-> m2]
    ELSE projectFields(m, Tail(fps),
                       setAtFieldPath(m2, Head(fps), getAtFieldPath(m, Head(fps)).val).m)
projected(m, fps, revField) ==
    projectFields(m, fps \o <<<<KeyField>>, <<revField>>>>, NilMap)
decodeDoc(current, doc, fps, revField) ==
    IF fps = <<>> THEN [err |-> OK, doc |-> Decode(current, doc)]
    ELSE IF projected(current, fps, revField).err # OK
    THEN [err |-> projected(current, fps, revField).err, doc |-> doc]
    ELSE [err |-> OK, doc |-> Decode(projected(current, fps, revField).m, doc)]

\* The fields in the order of Go's string comparison.
FieldOrder == <<"DocstoreRevision", "m", "n", "name", "s", "t">>
Rank(f) == CHOOSE i \in 1..Len(FieldOrder) : FieldOrder[i] = f

\* sort.Slice of the mods by the first component of their field paths
RECURSIVE SortMods(_)
SortMods(mods) ==
    IF Len(mods) <= 1 THEN mods
    ELSE LET least == CHOOSE i \in 1..Len(mods) :
                        \A j \in 1..Len(mods) :
                            \/ Rank(mods[i].FieldPath[1]) < Rank(mods[j].FieldPath[1])
                            \/ Rank(mods[i].FieldPath[1]) = Rank(mods[j].FieldPath[1]) /\ i <= j
             rest == [j \in 1..(Len(mods) - 1) |-> IF j < least THEN mods[j] ELSE mods[j + 1]]
         IN  <<mods[least]>> \o SortMods(rest)

\* The guaranteed mod of one mod, given its parent map pm: whether the parent
\* map is nil, and the value after encoding (Nil: the key is to be deleted).
guaranteedModIn(pm, key, mod) ==
    IF pm.err # OK THEN [err |-> pm.err, isNil |-> FALSE, encodedValue |-> Nil]
    ELSE IF mod.Value.t = "IncOp"
    THEN IF encodeValueError(mod.Value.v) # OK
         THEN [err |-> encodeValueError(mod.Value.v), isNil |-> pm.isNil, encodedValue |-> Nil]
         ELSE [err |-> add(GetField(pm.m, key), encodeValue(mod.Value.v)).err,
               isNil |-> pm.isNil,
               encodedValue |-> add(GetField(pm.m, key), encodeValue(mod.Value.v)).val]
    ELSE IF encodeValueError(mod.Value) # OK
    THEN [err |-> encodeValueError(mod.Value), isNil |-> pm.isNil, encodedValue |-> Nil]
    ELSE [err |-> OK, isNil |-> pm.isNil, encodedValue |-> encodeValue(mod.Value)]
guaranteedMod(doc, mod) ==
    guaranteedModIn(getParentMap(doc, mod.FieldPath), mod.FieldPath[Len(mod.FieldPath)], mod)

\* The second loop of update: the guaranteed mods from the i-th on, applied
\* to doc.  A set through a nil parent map is a write to a nil map.
\* A second loop that executes only the guaranteed mod it starts at.
executeMods_OnlyFirst(doc, mods, gmods, i) ==
    IF i > Len(mods) \/ gmods[i].isNil THEN [err |-> OK, doc |-> doc]
    ELSE [err |-> OK, doc |-> WriteAt(doc, mods[i].FieldPath, gmods[i].encodedValue)]

Panic == "panic"
RECURSIVE executeMods(_, _, _, _)
executeMods(doc, mods, gmods, i) ==
    IF i > Len(mods) THEN [err |-> OK, doc |-> doc]
    ELSE IF gmods[i].isNil
    THEN IF gmods[i].encodedValue = Nil
         THEN executeMods(doc, mods, gmods, i + 1)
         ELSE [err |-> Panic, doc |-> doc]
    ELSE executeMods(WriteAt(doc, mods[i].FieldPath, gmods[i].encodedValue),
                     mods, gmods, i + 1)

(***************************************************************************)
(* update: plans every mod against the document, returns the first error   *)
(* of the plan without touching the document, and otherwise executes the   *)
(* plan and stamps a new revision.                                         *)
(***************************************************************************)
\* The end of update, given the outcome of the second loop.
updateStamp(c, done, cr) ==
    IF done.err # OK
    THEN [err |-> done.err, doc |-> done.doc, curRevision |-> c.curRevision]
    ELSE [err |-> OK, doc |-> cr.doc, curRevision |-> cr.curRevision]
updateExecute(c, done) == updateStamp(c, done, changeRevision(c, done.doc))

\* An update that executes each mod right after planning it, so that the
\* mods before the first one that fails are applied.
updatePlanned_Unplanned(c, doc, mods, gmods) ==
    LET bad == {i \in 1..Len(mods) : gmods[i].err # OK}
        first == CHOOSE i \in bad : \A j \in bad : i <= j
    IN  IF bad # {}
        THEN [err |-> gmods[first].err,
              doc |-> executeMods(doc, SubSeq(mods, 1, first - 1),
                                  SubSeq(gmods, 1, first - 1), 1).doc,
              curRevision |-> c.curRevision]
        ELSE updateExecute(c, executeMods(doc, mods, gmods, 1))

\* update on the sorted mods and their guaranteed mods.
updatePlanned(c, doc, mods, gmods) ==
    LET bad == {i \in 1..Len(mods) : gmods[i].err # OK}
    IN  IF bad # {}
        THEN [err |-> gmods[CHOOSE i \in bad : \A j \in bad : i <= j].err,
              doc |-> doc, curRevision |-> c.curRevision]
        ELSE updateExecute(c, executeMods(doc, mods, gmods, 1))
updateSorted(c, doc, mods) ==
    updatePlanned(c, doc, mods, [i \in 1..Len(mods) |-> guaranteedMod(doc, mods[i])])
update(c, doc, mods) == updateSorted(c, doc, SortMods(mods))

(***************************************************************************)
(* runAction: one action a = [Kind, Doc, Key, Mods] on the collection      *)
(* c = [docs, curRevision], under the collection's mutex.  u is the string *)
(* driver.UniqueString returns when the action is a Create without a key.  *)
(* The result holds the collection after the action, the error code, and   *)
(* the action's document and key as the action leaves them.                *)
(***************************************************************************)
\* The kinds that fail with NotFound when the key is not in the map.
\* The NotFound check without the Get case, and without the Replace case.
NotFoundKinds_NoGet == {Replace, Update}
NotFoundKinds_NoReplace == {Update, Get}

NotFoundKinds == {Replace, Update, Get}

\* The checks on the key's presence without Create's AlreadyExists.
existsError_NoAlreadyExists(kind, exists) ==
    IF ~exists /\ kind \in {Replace, Update, Get} THEN NotFound
    ELSE OK

\* The error of the two checks on the key's presence (OK: none).
existsError(kind, exists) ==
    IF ~exists /\ kind \in NotFoundKinds THEN NotFound
    ELSE IF kind = Create /\ exists THEN AlreadyExists
    ELSE OK

\* A store that keeps the fields of the document it overwrites, and a
\* delete that leaves the document in place.
storeDoc_Merge(ds, key, doc) ==
    IF key \in DOMAIN ds
    THEN SetField(ds, key, [f \in DOMAIN ds[key] \cup DOMAIN doc |->
                               IF f \in DOMAIN doc THEN doc[f] ELSE ds[key][f]])
    ELSE SetField(ds, key, doc)
deleteDoc_Keep(ds, key) == ds

\* c.docs[a.Key] = doc and delete(c.docs, a.Key)
storeDoc(ds, key, doc) == SetField(ds, key, doc)
deleteDoc(ds, key) == DeleteField(ds, key)

\* An action that returns the error e and leaves the collection alone.
failed(c, doc, key, e) ==
    [docs |-> c.docs, curRevision |-> c.curRevision, err |-> e, Doc |-> doc, Key |-> key]

\* case Replace, Put, and Create which falls through to it: rerr is the
\* result of checkRevision, cr that of changeRevision on the encoded document.
\* A write that does not set the revision in the caller's document.
written_NoRoundTrip(c, key, doc, cr) ==
    [docs |-> storeDoc(c.docs, key, cr.doc), curRevision |-> cr.curRevision, err |-> OK,
     Doc |-> doc, Key |-> key]

written(c, key, doc, cr) ==
    [docs |-> storeDoc(c.docs, key, cr.doc), curRevision |-> cr.curRevision, err |-> OK,
     Doc |-> DocSetField(doc, RevisionField, cr.doc[RevisionField]), Key |-> key]
write(c, key, doc, rerr) ==
    IF rerr # OK THEN failed(c, doc, key, rerr)
    ELSE IF encodeDocError(doc) # OK THEN failed(c, doc, key, encodeDocError(doc))
    ELSE written(c, key, doc, changeRevision(c, encodeDoc(doc)))

\* case Delete
\* A Delete that advances the revision counter.
remove_Counted(c, a, rerr) ==
    IF rerr # OK THEN failed(c, a.Doc, a.Key, rerr)
    ELSE [docs |-> deleteDoc(c.docs, a.Key), curRevision |-> c.curRevision + 1, err |-> OK,
          Doc |-> a.Doc, Key |-> a.Key]
remove(c, a, rerr) ==
    IF rerr # OK THEN failed(c, a.Doc, a.Key, rerr)
    ELSE [docs |-> deleteDoc(c.docs, a.Key), curRevision |-> c.curRevision, err |-> OK,
          Doc |-> a.Doc, Key |-> a.Key]

\* case Update: up is the result of update on the stored document, which
\* update changes in place.
updated(c, a, up) ==
    [docs |-> storeDoc(c.docs, a.Key, up.doc), curRevision |-> up.curRevision,
     err |-> up.err,
     Doc |-> IF up.err # OK THEN a.Doc
             ELSE DocSetField(a.Doc, RevisionField, GetField(up.doc, RevisionField)),
     Key |-> a.Key]
modify(c, a, current, rerr) ==
    IF rerr # OK THEN failed(c, a.Doc, a.Key, rerr)
    ELSE updated(c, a, update(c, current, a.Mods))

\* case Get: dec is the result of decodeDoc into the caller's document.
got(c, a, dec) ==
    IF dec.err # OK THEN failed(c, a.Doc, a.Key, dec.err)
    ELSE [docs |-> c.docs, curRevision |-> c.curRevision, err |-> OK,
          Doc |-> dec.doc, Key |-> a.Key]

\* The switch on a.Kind.
\* A switch whose Create stores a document without a key under the new key
\* and leaves the caller's key field unset.
switchKind_NoKeyField(c, a, u, current) ==
    CASE a.Kind = Create ->
            IF a.Key = Nil
            THEN write(c, u, a.Doc, checkRevision(a.Doc, current))
            ELSE write(c, a.Key, a.Doc, checkRevision(a.Doc, current))
      [] a.Kind \in {Replace, Put} -> write(c, a.Key, a.Doc, checkRevision(a.Doc, current))
      [] a.Kind = Delete -> remove(c, a, checkRevision(a.Doc, current))
      [] a.Kind = Update -> modify(c, a, current, checkRevision(a.Doc, current))
      [] a.Kind = Get -> got(c, a, decodeDoc(current, a.Doc, a.FieldPaths, RevisionField))
      [] OTHER -> failed(c, a.Doc, a.Key, Internal)

switchKind(c, a, u, current) ==
    CASE a.Kind = Create ->
            IF a.Key = Nil
            THEN write(c, u, SetField(a.Doc, KeyField, u),
                       checkRevision(SetField(a.Doc, KeyField, u), current))
            ELSE write(c, a.Key, a.Doc, checkRevision(a.Doc, current))
      [] a.Kind \in {Replace, Put} -> write(c, a.Key, a.Doc, checkRevision(a.Doc, current))
      [] a.Kind = Delete -> remove(c, a, checkRevision(a.Doc, current))
      [] a.Kind = Update -> modify(c, a, current, checkRevision(a.Doc, current))
      [] a.Kind = Get -> got(c, a, decodeDoc(current, a.Doc, a.FieldPaths, RevisionField))
      [] OTHER -> failed(c, a.Doc, a.Key, Internal)

runActionOn(c, a, u, exists) ==
    IF existsError(a.Kind, exists) # OK
    THEN failed(c, a.Doc, a.Key, existsError(a.Kind, exists))
    ELSE switchKind(c, a, u, IF exists THEN c.docs[a.Key] ELSE NilMap)
runAction(c, a, u) == runActionOn(c, a, u, a.Key # Nil /\ a.Key \in DOMAIN c.docs)

\* The kinds that stamp a revision when they succeed.
Stamping == {Create, Replace, Put, Update}

(***************************************************************************)
(* docstore.Collection (the client of the driver) turns a caller's action  *)
(* into a driver action: the key is extracted with Key, and a Put of a     *)
(* document that carries a revision is run as a Replace.                   *)
(***************************************************************************)
toDriverAction(kind, doc, mods) ==
    [Kind |-> IF kind = Put /\ GetField(doc, RevisionField) # Nil THEN Replace ELSE kind,
     Doc |-> doc, Key |-> Key(doc), Mods |-> mods, FieldPaths |-> <<>>]

\* The client's checks before the driver is called.  A Create of a document
\* that has a revision is an InvalidArgument error.
createError_Unchecked(kind, doc) == OK
createError(kind, doc) ==
    IF kind = Create /\ GetField(doc, RevisionField) # Nil THEN InvalidArgument ELSE OK
\* An Increment whose amount is not an integer or a float is an
\* InvalidArgument error.
toDriverModsError_Unchecked(mods) == OK
toDriverModsError(mods) ==
    IF \E i \in DOMAIN mods :
          /\ mods[i].Value.t = "IncOp"
          /\ mods[i].Value.v.t \notin {"int64", "float64"}
    THEN InvalidArgument ELSE OK
toDriverActionError(kind, doc, mods) ==
    IF createError(kind, doc) # OK THEN createError(kind, doc)
    ELSE toDriverModsError(mods)

(***************************************************************************)
(* State.                                                                  *)
(*   docs, curRevision  the collection: the map from keys to documents and *)
(*                      the revision counter                               *)
(*   log                the successful stamping actions so far, in order:  *)
(*                      the key, the revision stamped on the stored        *)
(*                      document, and the counter after the action         *)
(*   last               the last call that ran a single action: the action *)
(*                      as submitted, the collection before it, its error  *)
(*                      and the caller's document and key after it         *)
(*   opts               the collection's Options                           *)
(*   run                a RunActions call on an action list: its actions,  *)
(*                      the four groups, the group being run, the actions  *)
(*                      whose goroutine has started and finished, and the  *)
(*                      errs slice and the callers' documents              *)
(*   opener             a URLOpener: its collections map, the contents of  *)
(*                      the collections it has opened, the calls of        *)
(*                      OpenCollectionURL in progress and the collections  *)
(*                      they have returned                                 *)
(*   mu                 the collection's mutex and the RunActions calls    *)
(*                      that run concurrently on the collection            *)
(*   sql                package cloudmysql: the dialer counter, the        *)
(*                      dialers registered with the MySQL driver, and the  *)
(*                      calls of instanceFromURL and OpenMySQLURL          *)
(***************************************************************************)
VARIABLES docs, curRevision, log, last, opts, run, opener, mu, sql
vars == <<docs, curRevision, log, last, opts, run, opener, mu, sql>>

coll == [docs |-> docs, curRevision |-> curRevision]

\* The keys, field values and revisions the callers use.
Keys == {Str("k1"), Str("k2")}
Revs == {Nil, Str("x")} \cup {Int64(r) : r \in 1..MaxRev}

Action(kind, doc, mods) ==
    [Kind |-> kind, Doc |-> doc, Key |-> Key(doc), Mods |-> mods, FieldPaths |-> <<>>]
Mod(fp, val) == [FieldPath |-> fp, Value |-> val]

\* A caller's document: the key (Nil: none), the fields s and t, the revision.
UserDoc(k, s, t, r) ==
    LET d0 == NilMap
        d1 == IF k = Nil THEN d0 ELSE SetField(d0, KeyField, k)
        d2 == IF s = Nil THEN d1 ELSE SetField(d1, "s", s)
        d3 == IF t = Nil THEN d2 ELSE SetField(d2, "t", t)
    IN  IF r = Nil THEN d3 ELSE SetField(d3, RevisionField, r)

Shapes == {<<Str("a"), Nil>>, <<Str("b"), Str("a")>>}
WriteDocs == {UserDoc(k, sh[1], sh[2], r) : k \in Keys, sh \in Shapes, r \in Revs}
KeyDocs == {UserDoc(k, Nil, Nil, r) : k \in Keys, r \in Revs}
ModLists ==
    { <<Mod(<<"s">>, Str("b"))>>,
      <<Mod(<<"s", "x">>, Nil)>>,
      <<Mod(<<"t">>, Nil), Mod(<<"s">>, Str("a"))>> }

NoCall ==
    [api |-> "none", a |-> Action(Get, NilMap, <<>>), pre |-> [docs |-> NilMap, curRevision |-> 0],
     err |-> OK, Doc |-> NilMap, Key |-> Nil]

\* An unlocked mutex and no concurrent call.
NoMutex == [locked |-> FALSE, inside |-> {}, calls |-> <<>>]

\* Package cloudmysql with no URL, no dialer registered and no call made.
NoDialers ==
    [u |-> [Host |-> <<>>, Path |-> <<>>], CertSource |-> "nil", parsed |-> <<>>,
     dialerCounter |-> [n |-> 0], dials |-> <<>>, opens |-> <<>>]

\* A URLOpener with no collections and no call.
NoOpener == [collections |-> NilMap, stores |-> <<>>, calls |-> <<>>, returned |-> {}]

NoRun ==
    [pc |-> "idle", actions |-> <<>>, groups |-> <<{}, {}, {}, {}>>, g |-> 1,
     started |-> {}, finished |-> {}, errs |-> <<>>, Docs |-> <<>>,
     pre |-> [docs |-> NilMap, curRevision |-> 0],
     alerr |-> <<>>, beforeDo |-> "nil", calls |-> 0, probes |-> {},
     canceled |-> FALSE, checked |-> {}]

Init ==
    /\ docs = NilMap
    /\ curRevision = 0
    /\ log = <<>>
    /\ last = NoCall
    /\ opts = [MaxOutstandingActionRPCs |-> 0]
    /\ run = NoRun
    /\ opener = NoOpener
    /\ mu = NoMutex
    /\ sql = NoDialers

(***************************************************************************)
(* RunActions on a list of one action: the action is alone in its group,   *)
(* runAction runs it, and the call returns its error.                      *)
(***************************************************************************)
\* The log after the action a with result r.
Logged(a, r) ==
    IF r.err = OK /\ a.Kind \in Stamping
    THEN Append(log, [Key |-> r.Key, Rev |-> GetField(r.docs[r.Key], RevisionField),
                      Counter |-> r.curRevision])
    ELSE log

Record(api, a, da, r) ==
    /\ docs' = r.docs
    /\ curRevision' = r.curRevision
    /\ log' = Logged(da, r)
    /\ last' = [api |-> api, a |-> a, pre |-> coll, err |-> r.err,
                Doc |-> r.Doc, Key |-> r.Key]
    /\ UNCHANGED <<opts, run, opener, mu, sql>>
Done(api, a, da, r) == r.curRevision <= MaxRev /\ Record(api, a, da, r)
Do(api, a, da) == Done(api, a, da, runAction(coll, da, Nil))

RunAction(a) == Do("RunActions", a, a)

\* A call with a list of one action, one action per kind.  No other call
\* on the collection is in flight.
DoCreate ==
    /\ run.pc = "idle"
    /\ \E d \in WriteDocs : RunAction(Action(Create, d, <<>>))
DoReplace ==
    /\ run.pc = "idle"
    /\ \E d \in WriteDocs : RunAction(Action(Replace, d, <<>>))
DoPut ==
    /\ run.pc = "idle"
    /\ \E d \in WriteDocs : RunAction(Action(Put, d, <<>>))
DoGet ==
    /\ run.pc = "idle"
    /\ \E k \in Keys : RunAction(Action(Get, UserDoc(k, Nil, Nil, Nil), <<>>))
DoDelete ==
    /\ run.pc = "idle"
    /\ \E d \in KeyDocs : RunAction(Action(Delete, d, <<>>))
DoUpdate ==
    /\ run.pc = "idle"
    /\ \E d \in KeyDocs, m \in ModLists : RunAction(Action(Update, d, m))

\* driver.UniqueString: a string that no earlier call returned and that no
\* caller uses as a key; issued are the strings returned so far.
UniqueStrings == {Str("u1"), Str("u2")}
Issued == {log[i].Key : i \in DOMAIN log} \cap UniqueStrings
UniqueString(issued) == UniqueStrings \ issued

\* A Create of a document that has no key field.
NoKeyDocs == {UserDoc(Nil, Str("b"), Str("a"), Nil)}
DoCreateNoKey ==
    /\ run.pc = "idle"
    /\ \E d \in NoKeyDocs, u \in UniqueString(Issued) :
         Done("RunActions", Action(Create, d, <<>>), Action(Create, d, <<>>),
              runAction(coll, Action(Create, d, <<>>), u))

\* A call of the client: an action that fails the client's checks does not
\* reach the driver.
Collection(api, a, e) ==
    IF e # OK
    THEN Record(api, a, a, failed(coll, a.Doc, a.Key, e))
    ELSE Do(api, a, toDriverAction(a.Kind, a.Doc, a.Mods))

\* Collection.Create of the client: the action list of one Create, of a
\* document with or without a revision.
CreateDocs == {UserDoc(k, Str("a"), Nil, r) : k \in Keys, r \in Revs}
CollectionCreate ==
    /\ run.pc = "idle"
    /\ \E d \in CreateDocs :
         Collection("Create", Action(Create, d, <<>>), toDriverActionError(Create, d, <<>>))

\* Collection.Put of the client: the action list of one Put.
CollectionPut ==
    /\ run.pc = "idle"
    /\ \E d \in WriteDocs :
         Do("Put", Action(Put, d, <<>>), toDriverAction(Put, d, <<>>))

Next ==
    \/ DoCreate
    \/ DoCreateNoKey
    \/ DoReplace
    \/ DoPut
    \/ DoGet
    \/ DoDelete
    \/ DoUpdate
    \/ CollectionPut
    \/ CollectionCreate

Spec == Init /\ [][Next]_vars

(***************************************************************************)
(* RunActions on an action list.                                           *)
(*                                                                         *)
(* driver.GroupActions: the gets that come before a write of their key,    *)
(* the gets of keys the list does not write, the writes, and the gets that *)
(* come after a write of their key.  Each group is a set of positions of   *)
(* the list.                                                               *)
(***************************************************************************)
IsWrite(a) == a.Kind # Get
GroupActions(as) ==
    LET n == Len(as)
        writtenBefore(i) == \E j \in 1..(i - 1) : IsWrite(as[j]) /\ as[j].Key = as[i].Key
        writtenAfter(i) == \E j \in (i + 1)..n : IsWrite(as[j]) /\ as[j].Key = as[i].Key
        getsOf == {i \in 1..n : ~IsWrite(as[i])}
    IN  << {i \in getsOf : ~writtenBefore(i) /\ writtenAfter(i)},
           {i \in getsOf : ~writtenBefore(i) /\ ~writtenAfter(i)},
           {i \in 1..n : IsWrite(as[i])},
           {i \in getsOf : writtenBefore(i)} >>

\* An ActionListError whose entries are numbered by their own position.
NewActionListError_Compact(errs) ==
    LET bad == {i \in 1..Len(errs) : errs[i] # OK}
        nth(k) == CHOOSE i \in bad : Cardinality({j \in bad : j < i}) = k - 1
    IN  [k \in 1..Cardinality(bad) |-> [Index |-> k, Err |-> errs[nth(k)]]]

\* driver.NewActionListError: the (index, error) pairs of the failed actions,
\* in ascending order of index.
RECURSIVE NewActionListError(_)
NewActionListError(errs) ==
    IF Len(errs) = 0 THEN <<>>
    ELSE LET front == NewActionListError(SubSeq(errs, 1, Len(errs) - 1))
         IN  IF errs[Len(errs)] = OK THEN front
             ELSE Append(front, [Index |-> Len(errs), Err |-> errs[Len(errs)]])

\* The actions of the lists, and the lists.
ListActions ==
    { Action(Put, UserDoc(Str("k1"), Str("a"), Nil, Nil), <<>>),
      Action(Put, UserDoc(Str("k1"), Str("b"), Str("a"), Nil), <<>>),
      Action(Get, UserDoc(Str("k1"), Nil, Nil, Nil), <<>>),
      Action(Delete, UserDoc(Str("k1"), Nil, Nil, Nil), <<>>),
      Action(Create, UserDoc(Str("k1"), Str("b"), Nil, Nil), <<>>),
      Action(Create, UserDoc(Str("k2"), Str("a"), Nil, Nil), <<>>),
      Action(Get, UserDoc(Str("k2"), Nil, Nil, Nil), <<>>) }
ActionLists == UNION {[1..n -> ListActions] : n \in 1..MaxActions}

\* The call at its start, at the statement pc: the errs slice is made; bd
\* is opts.BeforeDo ("nil": none, "ok": it returns nil, "error": it returns
\* an error).  The four groups are those GroupActions gives.
StartCall(as, bd, pc) ==
    [pc |-> pc, actions |-> as, groups |-> GroupActions(as), g |-> 1,
     started |-> {}, finished |-> {},
     errs |-> [i \in 1..Len(as) |-> OK],
     Docs |-> [i \in 1..Len(as) |-> as[i].Doc],
     pre |-> coll,
     alerr |-> <<>>, beforeDo |-> bd, calls |-> 0, probes |-> {},
     canceled |-> FALSE, checked |-> {}]

\* RunActions with no BeforeDo, up to the first group.
RunActions ==
    /\ run.pc = "idle"
    /\ \E as \in ActionLists : run' = StartCall(as, "nil", "running")
    /\ UNCHANGED <<docs, curRevision, log, last, opts, opener, mu, sql>>

\* driver.Throttle: whether Acquire returns at once, given the maximum and
\* the number of acquisitions not yet released.
ThrottleFree(max, outstanding) == max < 1 \/ outstanding < max

\* A loop that starts the goroutines without t.Acquire.
Acquire_NoThrottle(i) ==
    /\ run.pc = "running"
    /\ i \in run.groups[run.g] \ run.started
    /\ \A j \in run.groups[run.g] \ run.started : i <= j
    /\ run' = [run EXCEPT !.started = @ \cup {i}]
    /\ UNCHANGED <<docs, curRevision, log, last, opts, opener, mu, sql>>

\* t.Acquire and the go statement for the action at position i of the
\* group being run; the loop takes the actions of the group in their order.
Acquire(i) ==
    /\ run.pc = "running"
    /\ i \in run.groups[run.g] \ run.started
    /\ \A j \in run.groups[run.g] \ run.started : i <= j
    /\ ThrottleFree(opts.MaxOutstandingActionRPCs, Cardinality(run.started \ run.finished))
    /\ run' = [run EXCEPT !.started = @ \cup {i}]
    /\ UNCHANGED <<docs, curRevision, log, last, opts, opener, mu, sql>>

\* The goroutine of the action at position i, with a context that is not
\* canceled: runAction, the store into errs, and t.Release.
Finished(i, r) ==
    /\ docs' = r.docs
    /\ curRevision' = r.curRevision
    /\ log' = Logged(run.actions[i], r)
    /\ run' = [run EXCEPT !.finished = @ \cup {i}, !.errs[i] = r.err, !.Docs[i] = r.Doc]
    /\ UNCHANGED <<last, opts, opener, mu, sql>>
Goroutine(i) ==
    /\ run.pc = "running"
    /\ i \in run.started \ run.finished
    /\ Finished(i, runAction(coll, run.actions[i], Nil))

\* A call that returns after the first group in which an action failed, and
\* a run of the groups that does not wait for the goroutines of a group.
Wait_FirstError ==
    /\ run.pc = "running"
    /\ run.groups[run.g] \subseteq run.finished
    /\ run' = IF run.g < 4 /\ \A i \in run.finished : run.errs[i] = OK
              THEN [run EXCEPT !.g = @ + 1]
              ELSE [run EXCEPT !.pc = "returned", !.alerr = NewActionListError(run.errs)]
    /\ UNCHANGED <<docs, curRevision, log, last, opts, opener, mu, sql>>
Wait_NoWait ==
    /\ run.pc = "running"
    /\ run.groups[run.g] \subseteq run.started
    /\ run.g < 4 \/ run.groups[run.g] \subseteq run.finished
    /\ run' = IF run.g < 4 THEN [run EXCEPT !.g = @ + 1]
              ELSE [run EXCEPT !.pc = "returned", !.alerr = NewActionListError(run.errs)]
    /\ UNCHANGED <<docs, curRevision, log, last, opts, opener, mu, sql>>

\* t.Wait returns when every goroutine of the group has finished; the next
\* group is run, and after the last group RunActions returns the
\* ActionListError of errs.
Wait ==
    /\ run.pc = "running"
    /\ run.groups[run.g] \subseteq run.finished
    /\ run' = IF run.g < 4 THEN [run EXCEPT !.g = @ + 1]
              ELSE [run EXCEPT !.pc = "returned", !.alerr = NewActionListError(run.errs)]
    /\ UNCHANGED <<docs, curRevision, log, last, opts, opener, mu, sql>>

\* A collection that holds one document, after one Create.
Seeded ==
    [docs |-> storeDoc(NilMap, Str("k1"),
                       SetField(UserDoc(Str("k1"), Str("a"), Nil, Nil), RevisionField, Int64(1))),
     curRevision |-> 1]

InitList ==
    /\ \E c \in {[docs |-> NilMap, curRevision |-> 0], Seeded} :
         /\ docs = c.docs
         /\ curRevision = c.curRevision
         /\ log = [i \in 1..c.curRevision |->
                    [Key |-> Str("k1"), Rev |-> Int64(i), Counter |-> i]]
    /\ last = NoCall
    /\ opts \in {[MaxOutstandingActionRPCs |-> n] : n \in 0..MaxOutstanding}
    /\ run = NoRun
    /\ opener = NoOpener
    /\ mu = NoMutex
    /\ sql = NoDialers

NextList ==
    \/ RunActions
    \/ \E i \in 1..MaxActions : Acquire(i)
    \/ \E i \in 1..MaxActions : Goroutine(i)
    \/ Wait

SpecList == InitList /\ [][NextList]_vars

\* The list executed one action at a time in the submitted order, from the
\* collection c: the collection after it, and each action's error and
\* document.
SeqStep(front, r) ==
    [docs |-> r.docs, curRevision |-> r.curRevision,
     errs |-> Append(front.errs, r.err), Docs |-> Append(front.Docs, r.Doc)]
SeqNext(front, a) ==
    SeqStep(front, runAction([docs |-> front.docs, curRevision |-> front.curRevision], a, Nil))
RECURSIVE SeqRun(_, _)
SeqRun(c, as) ==
    IF Len(as) = 0
    THEN [docs |-> c.docs, curRevision |-> c.curRevision, errs |-> <<>>, Docs |-> <<>>]
    ELSE SeqNext(SeqRun(c, SubSeq(as, 1, Len(as) - 1)), as[Len(as)])

(***************************************************************************)
(* Update on a stored document with numbers and a nested map               *)
(* (specification SpecUpdate).  The collection holds one document under    *)
(* k1; one call runs one Update on it.                                     *)
(***************************************************************************)
\* The stored document: the fields s, n (Nil: absent) and m (Nil: absent),
\* stamped with the revision rev.
StoredDoc(n, m, rev) ==
    LET d1 == SetField(UserDoc(Str("k1"), Str("a"), Nil, Nil), RevisionField, Int64(rev))
        d2 == IF n = Nil THEN d1 ELSE SetField(d1, "n", n)
    IN  IF m = Nil THEN d2 ELSE SetField(d2, "m", m)
StoredNumbers == {Nil, Int64(1), Float64(2)}
StoredMaps == {Nil, MapVal(NilMap), MapVal(SetField(NilMap, "x", Int64(1)))}

\* The modifications: sets, deletes and increments of top-level and nested
\* fields, among them a path through a string, a value that does not
\* encode, and increments with an operand that is not a number.
UpdateMods ==
    { Mod(<<"s">>, Str("b")), Mod(<<"s">>, Nil),
      Mod(<<"t">>, Str("a")), Mod(<<"t">>, Nil), Mod(<<"t">>, Chan),
      Mod(<<"n">>, IncOp(Int64(1))), Mod(<<"n">>, IncOp(Float64(2))),
      Mod(<<"n">>, IncOp(Str("q"))), Mod(<<"n">>, IncOp(Chan)),
      Mod(<<"s">>, IncOp(Int64(1))),
      Mod(<<"m", "x">>, Int64(2)), Mod(<<"m", "x">>, Nil),
      Mod(<<"m", "x">>, IncOp(Int64(1))),
      Mod(<<"s", "x">>, Nil), Mod(<<"s", "x">>, Str("a")) }
\* The lists of one or two modifications of distinct top-level fields, as
\* the Mods of a caller, a map from field paths, give them.
UpdateModLists ==
    {<<m1>> : m1 \in UpdateMods} \cup
    {<<ms[1], ms[2]>> : ms \in {p \in UpdateMods \X UpdateMods :
                                  p[1].FieldPath[1] # p[2].FieldPath[1]}}

InitUpdate ==
    /\ \E n \in StoredNumbers, m \in StoredMaps, cur \in 1..MaxRev :
         \E rev \in 1..cur :
            /\ docs = storeDoc(NilMap, Str("k1"), StoredDoc(n, m, rev))
            /\ curRevision = cur
            /\ log = <<[Key |-> Str("k1"), Rev |-> Int64(rev), Counter |-> rev]>>
    /\ last = NoCall
    /\ opts = [MaxOutstandingActionRPCs |-> 0]
    /\ run = NoRun
    /\ opener = NoOpener
    /\ mu = NoMutex
    /\ sql = NoDialers

\* The call: an Update of k1, with no revision or with revision 1.
UpdateAction(r, mods) == Action(Update, UserDoc(Str("k1"), Nil, Nil, r), mods)
UpdateStored(a) == Record("RunActions", a, a, runAction(coll, a, Nil))
UpdateOneMod ==
    /\ last.api = "none"
    /\ \E r \in {Nil, Int64(1)}, mods \in {l \in UpdateModLists : Len(l) = 1} :
         UpdateStored(UpdateAction(r, mods))
UpdateTwoMods ==
    /\ last.api = "none"
    /\ \E r \in {Nil, Int64(1)}, mods \in {l \in UpdateModLists : Len(l) = 2} :
         UpdateStored(UpdateAction(r, mods))

\* Collection.Update of the client, of k1 or of a key that is not stored.
CollectionUpdate ==
    /\ last.api = "none"
    /\ \E k \in Keys, r \in {Nil, Int64(1)}, mods \in UpdateModLists :
         Collection("Update", Action(Update, UserDoc(k, Nil, Nil, r), mods),
                    toDriverActionError(Update, UserDoc(k, Nil, Nil, r), mods))

\* collection.Close: it returns nil.
\* A Close that empties the collection.
Close_Drop(c) ==
    [docs |-> NilMap, curRevision |-> 0, err |-> OK, Doc |-> NilMap, Key |-> Nil]
Close(c) ==
    [docs |-> c.docs, curRevision |-> c.curRevision, err |-> OK, Doc |-> NilMap, Key |-> Nil]
\* The last call on the collection.
DoClose ==
    /\ last.api = "none"
    /\ Record("Close", NoCall.a, NoCall.a, Close(coll))

\* A Put, Replace, Update, Get or Delete of a document that has no key: the
\* action's Key is nil.
NoKeyKinds == {Put, Replace, Update, Get, Delete}
DoNoKey ==
    /\ last.api = "none"
    /\ \E kind \in NoKeyKinds, d \in NoKeyDocs :
         Record("RunActions",
                Action(kind, d, IF kind = Update THEN <<Mod(<<"s">>, Str("b"))>> ELSE <<>>),
                Action(kind, d, IF kind = Update THEN <<Mod(<<"s">>, Str("b"))>> ELSE <<>>),
                runAction(coll, Action(kind, d, IF kind = Update THEN <<Mod(<<"s">>, Str("b"))>>
                                                ELSE <<>>), Nil))

NextUpdate ==
    \/ UpdateOneMod
    \/ UpdateTwoMods
    \/ CollectionUpdate
    \/ DoClose
    \/ DoNoKey

SpecUpdate == InitUpdate /\ [][NextUpdate]_vars

(***************************************************************************)
(* RunActions with a BeforeDo callback and a context that can be canceled  *)
(* (specification SpecCall).  The goroutine of an action is two steps: the *)
(* check of the context, and the rest of runAction under the mutex.        *)
(***************************************************************************)
\* The error a BeforeDo callback returns, and ctx.Err() of a canceled
\* context.
BeforeDoError == "BeforeDoError"
Canceled == "Canceled"
\* The function RunActions passes to BeforeDo, and the arguments the
\* callback tries it on.
asFunc(x) == FALSE
ProbeArgs == {Nil, Str("a")}

CallLists == UNION {[1..n -> ListActions] : n \in 1..(MaxActions - 1)}

\* The call, up to the test of opts.BeforeDo.
CallRunActions ==
    /\ run.pc = "idle"
    /\ \E as \in CallLists, bd \in {"nil", "ok", "error"} :
         run' = StartCall(as, bd, "beforeDo")
    /\ UNCHANGED <<docs, curRevision, log, last, opts, opener, mu, sql>>

\* A call that goes on to run the groups after BeforeDo returned an error.
CallBeforeDo_Continue ==
    /\ run.pc = "beforeDo"
    /\ run' = IF run.beforeDo = "nil" THEN [run EXCEPT !.pc = "running"]
              ELSE IF run.beforeDo = "error"
              THEN [run EXCEPT !.pc = "running", !.calls = @ + 1,
                               !.probes = {asFunc(x) : x \in ProbeArgs},
                               !.errs = [i \in DOMAIN run.errs |-> BeforeDoError]]
              ELSE [run EXCEPT !.pc = "running", !.calls = @ + 1,
                               !.probes = {asFunc(x) : x \in ProbeArgs}]
    /\ UNCHANGED <<docs, curRevision, log, last, opts, opener, mu, sql>>

\* if opts.BeforeDo != nil: the callback is called; when it returns an error
\* every slot of errs gets it and the call returns.
CallBeforeDo ==
    /\ run.pc = "beforeDo"
    /\ run' = IF run.beforeDo = "nil" THEN [run EXCEPT !.pc = "running"]
              ELSE IF run.beforeDo = "error"
              THEN [run EXCEPT !.pc = "returned", !.calls = @ + 1,
                               !.probes = {asFunc(x) : x \in ProbeArgs},
                               !.errs = [i \in DOMAIN run.errs |-> BeforeDoError],
                               !.alerr = NewActionListError(
                                            [i \in DOMAIN run.errs |-> BeforeDoError])]
              ELSE [run EXCEPT !.pc = "running", !.calls = @ + 1,
                               !.probes = {asFunc(x) : x \in ProbeArgs}]
    /\ UNCHANGED <<docs, curRevision, log, last, opts, opener, mu, sql>>

\* The caller cancels the context of the call.
Cancel ==
    /\ run.pc \in {"beforeDo", "running"}
    /\ ~run.canceled
    /\ run' = [run EXCEPT !.canceled = TRUE]
    /\ UNCHANGED <<docs, curRevision, log, last, opts, opener, mu, sql>>

\* A runAction that does not look at the context.
contextError_Ignored(canceled) == OK

\* if ctx.Err() != nil { return ctx.Err() }
contextError(canceled) == IF canceled THEN Canceled ELSE OK

\* The start of the goroutine of the action at position i: runAction
\* returns the context's error, or goes on to the mutex.
CheckContext(i) ==
    /\ run.pc = "running"
    /\ i \in run.started \ (run.checked \cup run.finished)
    /\ run' = IF contextError(run.canceled) # OK
              THEN [run EXCEPT !.finished = @ \cup {i},
                               !.errs[i] = contextError(run.canceled)]
              ELSE [run EXCEPT !.checked = @ \cup {i}]
    /\ UNCHANGED <<docs, curRevision, log, last, opts, opener, mu, sql>>

\* The rest of runAction for the action at position i, under the mutex.
RunLocked(i) ==
    /\ run.pc = "running"
    /\ i \in run.checked \ run.finished
    /\ Finished(i, runAction(coll, run.actions[i], Nil))

NextCall ==
    \/ CallRunActions
    \/ CallBeforeDo
    \/ Cancel
    \/ \E i \in 1..MaxActions : Acquire(i)
    \/ \E i \in 1..MaxActions : CheckContext(i)
    \/ \E i \in 1..MaxActions : RunLocked(i)
    \/ Wait

SpecCall == InitList /\ [][NextCall]_vars

(***************************************************************************)
(* Properties of a call that ran one action (specification Spec).          *)
(***************************************************************************)
\* The revision the caller's document carried, whether the key was in the
\* collection before the call, the document stored under it then, and
\* whether the call left the collection as it was.
GivenRev == GetField(last.a.Doc, RevisionField)
ExistedBefore == last.a.Key \in DOMAIN last.pre.docs
StoredBefore == last.pre.docs[last.a.Key]
Unchanged == docs = last.pre.docs /\ curRevision = last.pre.curRevision
StripRev(d) == DeleteField(d, RevisionField)
\* The error of the action's modifications on the document stored before.
ModsError == update(last.pre, StoredBefore, last.a.Mods).err

\* C1 (as claimed): when RunActions has returned, every Get of the list has
\* the error and, apart from the revision field, the document that the
\* list executed one action at a time in the submitted order gives it.
C1_GetAsInSubmittedOrder ==
    run.pc = "returned" =>
        \A i \in DOMAIN run.actions :
            run.actions[i].Kind = Get =>
                /\ run.errs[i] = SeqRun(run.pre, run.actions).errs[i]
                /\ StripRev(run.Docs[i]) = StripRev(SeqRun(run.pre, run.actions).Docs[i])

C3_RevisionCheckedAsClaimed ==
    (/\ last.a.Kind \in {Put, Replace, Update, Delete}
     /\ ExistedBefore
     /\ GivenRev.t = "int64") =>
        IF GivenRev # StoredBefore[RevisionField]
        THEN last.err = FailedPrecondition /\ Unchanged
        ELSE last.err = OK

\* C3 (amended): as claimed, except that an Update that carries the stored
\* revision and has a modification that fails returns that modification's
\* error and changes nothing.
C3_RevisionChecked ==
    (/\ last.a.Kind \in {Put, Replace, Update, Delete}
     /\ ExistedBefore
     /\ GivenRev.t = "int64") =>
        IF GivenRev # StoredBefore[RevisionField]
        THEN last.err = FailedPrecondition /\ Unchanged
        ELSE IF last.a.Kind = Update /\ ModsError # OK
        THEN last.err = ModsError /\ Unchanged
        ELSE last.err = OK

C3_Witness ==
    /\ last.a.Kind = Replace
    /\ ExistedBefore
    /\ GivenRev.t = "int64"
    /\ GivenRev # StoredBefore[RevisionField]
    /\ last.err = FailedPrecondition
    /\ Len(log) = 2

\* C4: the revisions stamped by the successful writes strictly increase in
\* the order of the writes (so none is issued twice, and a later write to a
\* key carries a greater revision than an earlier one, also across a
\* Delete), and no step decreases the revision counter.
C4_RevisionsIncrease ==
    /\ [](\A i, j \in DOMAIN log :
            i < j => /\ log[i].Rev.t = "int64"
                     /\ log[j].Rev.t = "int64"
                     /\ log[i].Rev.v < log[j].Rev.v)
    /\ [][curRevision' >= curRevision]_vars

\* A document deleted and created again: two writes to one key, the second
\* a Create.
C4_Witness ==
    /\ Len(log) = 2
    /\ log[1].Key = log[2].Key
    /\ last.a.Kind = Create
    /\ last.err = OK
    /\ last.a.Key = log[1].Key

\* C5: every stored document has the revision field, holding a nonzero
\* int64 that is at most the counter and equal to the counter value issued
\* by the last successful write to the document's key.
C5_StoredRevision ==
    \A k \in DOMAIN docs :
        LET writes == {i \in DOMAIN log : log[i].Key = k}
        IN  /\ RevisionField \in DOMAIN docs[k]
            /\ docs[k][RevisionField].t = "int64"
            /\ docs[k][RevisionField].v # 0
            /\ docs[k][RevisionField].v <= curRevision
            /\ writes # {}
            /\ \E i \in writes :
                 /\ \A j \in writes : j <= i
                 /\ docs[k][RevisionField].v = log[i].Counter

C5_Witness ==
    /\ last.a.Kind = Update
    /\ last.err = OK
    /\ Len(log) = 2
    /\ log[1].Key = log[2].Key
    /\ docs[last.a.Key][RevisionField] = Int64(2)

\* C6: a Create of a key that is in the collection fails with AlreadyExists
\* and leaves the documents and the counter as they were.
C6_CreateExisting ==
    (last.api = "RunActions" /\ last.a.Kind = Create /\ ExistedBefore) =>
        last.err = AlreadyExists /\ Unchanged

C6_Witness ==
    /\ last.api = "RunActions"
    /\ last.a.Kind = Create
    /\ ExistedBefore
    /\ last.err = AlreadyExists
    /\ GetField(last.a.Doc, "s") # GetField(docs[last.a.Key], "s")

\* C7: a Replace, an Update or a Get of a key that is not in the collection
\* fails with NotFound, changes nothing and creates no document.
C7_NotFound ==
    (last.api = "RunActions" /\ last.a.Kind \in {Replace, Update, Get} /\ ~ExistedBefore) =>
        /\ last.err = NotFound
        /\ Unchanged
        /\ last.a.Key \notin DOMAIN docs

C7_Witness ==
    /\ last.api = "RunActions"
    /\ last.a.Kind = Update
    /\ ~ExistedBefore
    /\ last.err = NotFound
    /\ DOMAIN docs # {}

\* C8: a Delete of a key that is not in the collection returns no error and
\* changes nothing; after a Delete that succeeded the key is gone, a Get of
\* it fails, and the same Delete once more succeeds and changes nothing.
C8_DeleteIdempotent ==
    /\ (last.a.Kind = Delete /\ ~ExistedBefore) => (last.err = OK /\ Unchanged)
    /\ (last.a.Kind = Delete /\ last.err = OK) =>
          /\ last.a.Key \notin DOMAIN docs
          /\ runAction(coll, Action(Get, UserDoc(last.a.Key, Nil, Nil, Nil), <<>>), Nil).err
                = NotFound
          /\ runAction(coll, last.a, Nil).err = OK
          /\ runAction(coll, last.a, Nil).docs = docs
          /\ runAction(coll, last.a, Nil).curRevision = curRevision

C8_Witness ==
    /\ last.a.Kind = Delete
    /\ ExistedBefore
    /\ last.err = OK
    /\ DOMAIN docs # {}

ValueAt(d, fp) ==
    IF Len(fp) = 1 THEN GetField(d, fp[1])
    ELSE IF GetField(d, fp[1]).t = "map" THEN GetField(d[fp[1]].v, fp[2])
    ELSE Nil
RevisionPasses == GivenRev = Nil \/ GivenRev = StoredBefore[RevisionField]
IsNumber(val) == val.t \in {"int64", "float64"}
\* The error with which the modification mod fails on document d (OK: it
\* does not fail): a path through a value that is not a map, a value that
\* does not encode, an increment of a value that is not a number, an
\* increment of a number by an amount that is not one.
ModFailure(d, mod) ==
    IF Len(mod.FieldPath) = 2 /\ GetField(d, mod.FieldPath[1]).t \notin {"nil", "map"}
    THEN InvalidArgument
    ELSE IF mod.Value = Chan \/ mod.Value = IncOp(Chan) THEN InvalidArgument
    ELSE IF mod.Value.t # "IncOp" \/ ValueAt(d, mod.FieldPath) = Nil THEN OK
    ELSE IF ~IsNumber(ValueAt(d, mod.FieldPath)) THEN InvalidArgument
    ELSE IF ~IsNumber(mod.Value.v) THEN Internal
    ELSE OK
FailingMods == {i \in DOMAIN last.a.Mods : ModFailure(StoredBefore, last.a.Mods[i]) # OK}

\* C11: an Update of an existing document that passes the revision check
\* and has a modification that fails returns the error of a failing
\* modification and leaves the documents and the counter as they were,
\* wherever the failing modification stands in the list.
C11_UpdateAllOrNothing ==
    (/\ last.api = "RunActions"
     /\ last.a.Kind = Update
     /\ ExistedBefore
     /\ RevisionPasses
     /\ FailingMods # {}) =>
        /\ last.err \in {ModFailure(StoredBefore, last.a.Mods[i]) : i \in FailingMods}
        /\ Unchanged

\* The set of s is planned first and the set of t to a channel fails.
C11_Witness ==
    /\ last.api = "RunActions"
    /\ last.a.Mods = <<Mod(<<"t">>, Chan), Mod(<<"s">>, Str("b"))>>
    /\ RevisionPasses
    /\ last.err = InvalidArgument
    /\ docs[last.a.Key]["s"] = Str("a")

\* C12: after a successful Update the stored document has, at the path of
\* each modification, the value set, no value for a nil value, and the old
\* value plus the amount (the amount when there was none) for an increment;
\* its other fields are as before; it carries one new revision, the counter
\* advanced by one.
C12_UpdateApplied ==
    (last.api = "RunActions" /\ last.a.Kind = Update /\ last.err = OK) =>
        LET old == StoredBefore
            new == docs[last.a.Key]
            touched == {last.a.Mods[i].FieldPath[1] : i \in DOMAIN last.a.Mods}
        IN  /\ \A i \in DOMAIN last.a.Mods :
                 LET fp == last.a.Mods[i].FieldPath
                     val == last.a.Mods[i].Value
                     was == ValueAt(old, fp)
                 IN  ValueAt(new, fp) =
                        IF val.t # "IncOp" THEN val
                        ELSE IF was = Nil THEN val.v
                        ELSE IF was.t = "int64" /\ val.v.t = "int64"
                        THEN Int64(was.v + val.v.v)
                        ELSE Float64(was.v + val.v.v)
            /\ \A f \in (DOMAIN old \cup DOMAIN new) \ (touched \cup {RevisionField}) :
                 GetField(new, f) = GetField(old, f)
            /\ new[RevisionField] = Int64(last.pre.curRevision + 1)
            /\ curRevision = last.pre.curRevision + 1
            /\ DOMAIN docs = DOMAIN last.pre.docs

C12_Witness ==
    /\ last.api = "RunActions"
    /\ last.err = OK
    /\ last.a.Mods = <<Mod(<<"s">>, Nil), Mod(<<"m", "x">>, IncOp(Int64(1)))>>
    /\ StoredBefore["m"] = MapVal(SetField(NilMap, "x", Int64(1)))
    /\ docs[last.a.Key]["m"] = MapVal(SetField(NilMap, "x", Int64(2)))
    /\ "s" \notin DOMAIN docs[last.a.Key]

\* C13: an Update with the one modification that increments a top-level
\* field by an amount that encodes, passing the revision check, follows the
\* type table of add: no old value gives the amount; int64 and int64 give
\* the int64 sum; a number and a float64, or a float64 and a number, give
\* the float64 sum; an old value that is not a number fails with
\* InvalidArgument; a number and an amount that is not one fail with
\* Internal.
C13_IncrementTable ==
    (/\ last.api = "RunActions"
     /\ last.a.Kind = Update
     /\ RevisionPasses
     /\ Len(last.a.Mods) = 1
     /\ Len(last.a.Mods[1].FieldPath) = 1
     /\ last.a.Mods[1].Value.t = "IncOp"
     /\ last.a.Mods[1].Value.v # Chan) =>
        LET f == last.a.Mods[1].FieldPath[1]
            x == GetField(StoredBefore, f)
            y == last.a.Mods[1].Value.v
            sum == GetField(docs[last.a.Key], f)
        IN  IF x = Nil THEN last.err = OK /\ sum = y
            ELSE IF ~IsNumber(x) THEN last.err = InvalidArgument /\ sum = x
            ELSE IF ~IsNumber(y) THEN last.err = Internal /\ sum = x
            ELSE IF x.t = "int64" /\ y.t = "int64"
            THEN last.err = OK /\ sum = Int64(x.v + y.v)
            ELSE last.err = OK /\ sum = Float64(x.v + y.v)

C13_Witness ==
    /\ last.api = "RunActions"
    /\ last.a.Mods = <<Mod(<<"n">>, IncOp(Float64(2)))>>
    /\ last.err = OK
    /\ GetField(StoredBefore, "n") = Int64(1)
    /\ docs[last.a.Key]["n"] = Float64(3)

WritesOnce(as) ==
    \A i, j \in DOMAIN as :
        (i # j /\ IsWrite(as[i]) /\ IsWrite(as[j])) => as[i].Key # as[j].Key
\* The group of the action at position i.
GroupOf(i) == CHOOSE g \in 1..4 : i \in run.groups[g]

C19_ThrottleBound ==
    /\ opts.MaxOutstandingActionRPCs >= 1 =>
          Cardinality(run.started \ run.finished) <= opts.MaxOutstandingActionRPCs
    /\ (/\ opts.MaxOutstandingActionRPCs < 1
        /\ run.pc = "running"
        /\ run.groups[run.g] \ run.started # {}) =>
          \E i \in run.groups[run.g] \ run.started : ENABLED Acquire(i)

\* Two goroutines in flight under a maximum of 2, and a third action of the
\* group not started.
C19_Witness ==
    /\ opts.MaxOutstandingActionRPCs = 2
    /\ run.pc = "running"
    /\ Cardinality(run.started \ run.finished) = 2
    /\ run.groups[run.g] \ run.started # {}

\* C20: every action of a group earlier than that of a started action has
\* finished.
C20_GroupsInTurn ==
    \A i \in run.started, j \in DOMAIN run.actions :
        GroupOf(j) < GroupOf(i) => j \in run.finished

\* A Get of the last group in flight after two writes.
C20_Witness ==
    /\ run.pc = "running"
    /\ run.g = 4
    /\ run.started \ run.finished # {}
    /\ Cardinality(run.groups[3]) = 2
    /\ run.groups[3] \subseteq run.finished

(***************************************************************************)
(* Properties of a call with a BeforeDo callback and a context that can be *)
(* canceled (specification SpecCall).                                      *)
(***************************************************************************)
\* C17: a BeforeDo callback has been called once when the groups are run or
\* the call has returned, and not before; no goroutine has started before
\* it was called; the function passed to it returned false for every
\* argument; when it returned an error the call has returned with that
\* error in every slot of errs and in the ActionListError, no goroutine has
\* started, and the collection is as before the call.
C17_BeforeDo ==
    run.beforeDo # "nil" =>
        /\ run.calls = IF run.pc \in {"running", "returned"} THEN 1 ELSE 0
        /\ run.started # {} => run.calls = 1
        /\ run.probes \subseteq {FALSE}
        /\ (run.beforeDo = "error" /\ run.calls = 1) =>
              /\ run.pc = "returned"
              /\ run.started = {}
              /\ \A i \in DOMAIN run.actions : run.errs[i] = BeforeDoError
              /\ Len(run.alerr) = Len(run.actions)
              /\ \A k \in DOMAIN run.alerr :
                    run.alerr[k] = [Index |-> k, Err |-> BeforeDoError]
              /\ docs = run.pre.docs
              /\ curRevision = run.pre.curRevision

C17_Witness ==
    /\ run.beforeDo = "error"
    /\ run.pc = "returned"
    /\ run.calls = 1
    /\ run.probes = {FALSE}
    /\ Len(run.actions) = 2
    /\ \A i \in DOMAIN run.actions : IsWrite(run.actions[i])
    /\ Len(run.alerr) = 2

\* C18: the goroutine of an action that checks a canceled context ends
\* with the context's error in the action's slot and leaves the collection
\* and the action's document alone; every change of the collection is the
\* effect runAction has for an action that passed the check, whether or not
\* the context has been canceled since, and a cancellation changes nothing.
C18_Cancellation ==
    [][/\ \A i \in run.started \ (run.checked \cup run.finished) :
             (run.canceled /\ run'.pc = "running"
                /\ i \in run'.checked \cup run'.finished) =>
                /\ i \in run'.finished \ run'.checked
                /\ run'.errs[i] = Canceled
                /\ run'.Docs[i] = run.Docs[i]
                /\ docs' = docs
                /\ curRevision' = curRevision
       /\ \A i \in run.checked \ run.finished :
             i \in run'.finished =>
                /\ run'.errs[i] = runAction(coll, run.actions[i], Nil).err
                /\ docs' = runAction(coll, run.actions[i], Nil).docs
       /\ (docs' # docs \/ curRevision' # curRevision) =>
             \E i \in run.checked \ run.finished : i \in run'.finished
      ]_vars

\* The first action was written before the cancellation, the second found
\* the context canceled.
C18_Witness ==
    /\ run.pc = "returned"
    /\ run.canceled
    /\ Len(run.actions) = 2
    /\ run.errs = <<OK, Canceled>>
    /\ IsWrite(run.actions[1])
    /\ docs # run.pre.docs

(***************************************************************************)
(* The query engine: RunGetQuery and RunDeleteQuery scan the documents     *)
(* under the mutex, keep those that match every filter, sort them by the   *)
(* order-by field, truncate them to the limit and project them on the      *)
(* requested field paths.  The iterator then yields them one at a time.    *)
(***************************************************************************)
\* Strings in the order of Go's string comparison.
StringOrder == <<".", "a", "b", "q1", "q2", "q3">>
StringRank(x) == CHOOSE i \in DOMAIN StringOrder : StringOrder[i] = x
Sign(n) == IF n < 0 THEN 0 - 1 ELSE IF n > 0 THEN 1 ELSE 0

\* compare: numbers by value, strings by bytes; values of different types
\* do not compare.
compare(x, y) ==
    IF x.t \in {"int64", "float64"} /\ y.t \in {"int64", "float64"}
    THEN [err |-> OK, c |-> Sign(x.v - y.v)]
    ELSE IF x.t = "string" /\ y.t = "string"
    THEN [err |-> OK, c |-> Sign(StringRank(x.v) - StringRank(y.v))]
    ELSE [err |-> InvalidArgument, c |-> 0]
applyComparison(op, c) ==
    CASE op = "=" -> c = 0
      [] op = "<" -> c < 0
      [] op = "<=" -> c <= 0
      [] op = ">" -> c > 0
      [] op = ">=" -> c >= 0
      [] OTHER -> FALSE

\* A filter that matches whatever the operator.
filterMatches_AnyOp(doc, f) ==
    compare(getAtFieldPath(doc, f.FieldPath).val, f.Value).err = OK
filterMatches(doc, f) ==
    applyComparison(f.Op, compare(getAtFieldPath(doc, f.FieldPath).val, f.Value).c)
filterError(doc, f) == compare(getAtFieldPath(doc, f.FieldPath).val, f.Value).err
filtersMatch(doc, fs) == \A i \in DOMAIN fs : filterMatches(doc, fs[i])

\* The scan: the keys of the documents that match, and its error.
matching(ds, q) == {k \in DOMAIN ds : filtersMatch(ds[k], q.Filters)}
scanError(ds, q) ==
    IF \E k \in DOMAIN ds : \E i \in DOMAIN q.Filters : filterError(ds[k], q.Filters[i]) # OK
    THEN InvalidArgument ELSE OK

\* The sort: the scan meets the documents of the map in any order, and the
\* sort puts them in the order of the order-by field.
inOrder(x, y, asc) == IF asc THEN compare(x, y).c <= 0 ELSE compare(x, y).c >= 0
\* A sort that ignores the direction.
sorted_Ascending(ds, o, q) ==
    \/ q.OrderByField = ""
    \/ \A i, j \in DOMAIN o :
          i < j => inOrder(ds[o[i]][q.OrderByField], ds[o[j]][q.OrderByField], TRUE)
sorted(ds, o, q) ==
    \/ q.OrderByField = ""
    \/ \A i, j \in DOMAIN o :
          i < j => inOrder(ds[o[i]][q.OrderByField], ds[o[j]][q.OrderByField],
                           q.OrderAscending)
orders(ds, q) ==
    {o \in [1..Cardinality(matching(ds, q)) -> matching(ds, q)] :
        /\ \A i, j \in DOMAIN o : o[i] = o[j] => i = j
        /\ sorted(ds, o, q)}

\* The limit: a Limit that is not positive is no limit.
\* A limit that takes every document.
truncate_NoLimit(o, limit) == o
truncate(o, limit) == IF limit > 0 /\ Len(o) > limit THEN SubSeq(o, 1, limit) ELSE o

\* The projection on the query's field paths.
\* A projection that returns the whole document.
project_Whole(doc, fps) == doc
project(doc, fps) == IF fps = <<>> THEN doc ELSE projected(doc, fps, RevisionField).m

\* The documents of the iterator, for the order o of the matching keys.
results(ds, q, o) ==
    [i \in 1..Len(truncate(o, q.Limit)) |-> project(ds[truncate(o, q.Limit)[i]], q.FieldPaths)]

\* The stored documents of the query collection: the numbers n, the
\* strings s and the maps m, under the keys q1, q2 and q3.
MaxLimit == 2
QueryKeys == {Str("q1"), Str("q2"), Str("q3")}
QueryShapes ==
    { [n |-> Int64(1), s |-> Str("a"), m |-> Nil],
      [n |-> Float64(2), s |-> Str("a"),
       m |-> MapVal(SetField(SetField(NilMap, "x", Int64(1)), "y", Str("a")))],
      [n |-> Int64(2), s |-> Str("b"), m |-> MapVal(NilMap)] }
QueryDoc(k, sh, rev) ==
    LET d == SetField(SetField(UserDoc(k, sh.s, Nil, Nil), "n", sh.n), RevisionField, Int64(rev))
    IN  IF sh.m = Nil THEN d ELSE SetField(d, "m", sh.m)
RevOf(k) == StringRank(k.v) - 3
QueryCollections ==
    {[k \in ks |-> QueryDoc(k, sh[k], RevOf(k))] : <<ks, sh>> \in
        {<<ks, sh>> \in (SUBSET QueryKeys) \X [QueryKeys -> QueryShapes] : \A k \in QueryKeys \ ks : sh[k] = CHOOSE x \in QueryShapes : TRUE}}

Filter(fp, op, val) == [FieldPath |-> fp, Op |-> op, Value |-> val]
Query(fs, by, asc, limit, fps) ==
    [Filters |-> fs, OrderByField |-> by, OrderAscending |-> asc, Limit |-> limit,
     FieldPaths |-> fps]
NumberFilters ==
    {Filter(<<"n">>, op, val) : op \in {"=", "<", "<=", ">", ">="}, val \in {Int64(1), Float64(2)}}
StringFilters ==
    { Filter(<<"s">>, "=", Str("a")), Filter(<<"s">>, ">", Str("a")),
      Filter(<<"s">>, "<=", Str("a")), Filter(<<KeyField>>, "<", Str("q3")),
      Filter(<<KeyField>>, ">=", Str("q2")) }
MixedFilters == {Filter(<<"s">>, "=", Int64(1)), Filter(<<"n">>, "<", Str("a"))}
FilterLists ==
    {<<>>} \cup {<<f>> : f \in NumberFilters \cup StringFilters \cup MixedFilters}
    \cup {<<f, g>> : f \in {Filter(<<"n">>, ">=", Float64(2)), Filter(<<"n">>, "<", Float64(2))},
                     g \in StringFilters}
OrderBys == {<<"", FALSE>>, <<"n", TRUE>>, <<"n", FALSE>>, <<"s", TRUE>>, <<"s", FALSE>>}
Limits == (0 - 1)..MaxLimit
Projections ==
    { <<<<"s">>>>, <<<<"m", "x">>, <<"n">>>>, <<<<KeyField>>>>,
      <<<<RevisionField>>, <<"t">>>>, <<<<"m">>, <<"m", "y">>>> }
GetQueries ==
    {Query(fs, by[1], by[2], l, <<>>) : fs \in FilterLists, by \in OrderBys, l \in Limits}
    \cup {Query(fs, "", FALSE, l, fps) :
            fs \in {<<>>, <<Filter(<<"s">>, "=", Str("a"))>>}, l \in {0, 1}, fps \in Projections}
DeleteQueries ==
    {Query(fs, "", FALSE, l, <<>>) : fs \in FilterLists, l \in Limits}

InitQuery ==
    /\ docs \in QueryCollections
    /\ curRevision = 3
    /\ log = <<>>
    /\ last = NoCall
    /\ opts = [MaxOutstandingActionRPCs |-> 0]
    /\ run = NoRun
    /\ opener = NoOpener
    /\ mu = NoMutex
    /\ sql = NoDialers

\* RunGetQuery: the iterator holds the documents of the scan; got are the
\* documents it has yielded, eof that it has signalled the end.
Iterator(q, e, ds) ==
    /\ last' = [api |-> "GetQuery", q |-> q, pre |-> coll, err |-> e, iter |-> ds,
                got |-> <<>>, eof |-> FALSE]
    /\ UNCHANGED <<docs, curRevision, log, opts, run, opener, mu, sql>>
RunGetQuery ==
    /\ last.api = "none"
    /\ \E q \in GetQueries :
         IF scanError(docs, q) # OK THEN Iterator(q, scanError(docs, q), <<>>)
         ELSE \E o \in orders(docs, q) : Iterator(q, OK, results(docs, q, o))

\* DocumentIterator.Next: the next document, or the end of the sequence.
IterNext ==
    /\ last.api = "GetQuery" /\ last.err = OK /\ ~last.eof
    /\ last' = IF Len(last.got) < Len(last.iter)
               THEN [last EXCEPT !.got = Append(@, last.iter[Len(last.got) + 1])]
               ELSE [last EXCEPT !.eof = TRUE]
    /\ UNCHANGED <<docs, curRevision, log, opts, run, opener, mu, sql>>

\* RunDeleteQuery: a limit is an error; the documents that match are
\* deleted.
\* A delete-query that takes a limit.
deleteError_LimitAllowed(ds, q) == scanError(ds, q)
deleteError(ds, q) == IF q.Limit > 0 THEN InvalidArgument ELSE scanError(ds, q)
\* A delete-query that deletes every document.
deleted_All(ds, q) == NilMap
deleted(ds, q) == [k \in DOMAIN ds \ matching(ds, q) |-> ds[k]]
Deleted(q, e) ==
    /\ docs' = IF e # OK THEN docs ELSE deleted(docs, q)
    /\ last' = [api |-> "DeleteQuery", q |-> q, pre |-> coll, err |-> e]
    /\ UNCHANGED <<curRevision, log, opts, run, opener, mu, sql>>
RunDeleteQuery ==
    /\ last.api = "none"
    /\ \E q \in DeleteQueries : Deleted(q, deleteError(docs, q))

\* A Get with field paths.
GetFieldPaths ==
    /\ last.api = "none"
    /\ \E k \in QueryKeys, fps \in Projections \cup {<<>>, <<<<"s", "x">>>>} :
         Record("Get", [Action(Get, UserDoc(k, Nil, Nil, Nil), <<>>) EXCEPT !.FieldPaths = fps],
                [Action(Get, UserDoc(k, Nil, Nil, Nil), <<>>) EXCEPT !.FieldPaths = fps],
                runAction(coll, [Action(Get, UserDoc(k, Nil, Nil, Nil), <<>>)
                                    EXCEPT !.FieldPaths = fps], Nil))

NextQuery ==
    \/ RunGetQuery
    \/ IterNext
    \/ RunDeleteQuery
    \/ GetFieldPaths

SpecQuery == InitQuery /\ [][NextQuery]_vars

BadIncrement(mods) ==
    \E i \in DOMAIN mods : mods[i].Value.t = "IncOp" /\ ~IsNumber(mods[i].Value.v)
Requested(fps) == {fps[i] : i \in DOMAIN fps} \cup {<<KeyField>>, <<RevisionField>>}
\* d has the values of the stored document at the requested paths, and no
\* field or nested field outside them.
ExactlyPaths(d, stored, fps) ==
    /\ \A p \in Requested(fps) : ValueAt(d, p) = ValueAt(stored, p)
    /\ \A f \in DOMAIN d : \E p \in Requested(fps) : p[1] = f
    /\ \A f \in DOMAIN d :
          d[f].t = "map" =>
             \A x \in DOMAIN d[f].v : \E p \in Requested(fps) : p = <<f>> \/ p = <<f, x>>
Returned(d, stored, fps) == IF fps = <<>> THEN d = stored ELSE ExactlyPaths(d, stored, fps)
IsString(val) == val.t = "string"
Comparable(d, f) ==
    \/ IsNumber(ValueAt(d, f.FieldPath)) /\ IsNumber(f.Value)
    \/ IsString(ValueAt(d, f.FieldPath)) /\ IsString(f.Value)
\* The order of two values of one type.
Before(x, y) == IF IsNumber(x) THEN x.v < y.v ELSE StringRank(x.v) < StringRank(y.v)
Satisfies(d, f) ==
    /\ Comparable(d, f)
    /\ CASE f.Op = "=" -> ValueAt(d, f.FieldPath).v = f.Value.v
         [] f.Op = "<" -> Before(ValueAt(d, f.FieldPath), f.Value)
         [] f.Op = "<=" -> ~Before(f.Value, ValueAt(d, f.FieldPath))
         [] f.Op = ">" -> Before(f.Value, ValueAt(d, f.FieldPath))
         [] f.Op = ">=" -> ~Before(ValueAt(d, f.FieldPath), f.Value)
\* The stored documents that satisfy every filter of the last query.
Matches ==
    {d \in {last.pre.docs[k] : k \in DOMAIN last.pre.docs} :
        \A i \in DOMAIN last.q.Filters : Satisfies(d, last.q.Filters[i])}
AllComparable ==
    \A k \in DOMAIN last.pre.docs :
       \A i \in DOMAIN last.q.Filters : Comparable(last.pre.docs[k], last.q.Filters[i])
Yielded == {last.got[i] : i \in DOMAIN last.got}
C25_QueryMatches ==
    /\ (last.api = "GetQuery" /\ AllComparable) => last.err = OK
    /\ (last.api = "GetQuery" /\ last.err = OK /\ last.q.Limit <= 0
        /\ last.q.FieldPaths = <<>>) =>
          /\ \A i, j \in DOMAIN last.got : last.got[i] = last.got[j] => i = j
          /\ Yielded \subseteq Matches
          /\ last.eof => Yielded = Matches
          /\ last.q.Filters = <<>> =>
                Matches = {last.pre.docs[k] : k \in DOMAIN last.pre.docs}

\* A query with two filters on three documents has yielded the one that
\* satisfies both, and then the end.
C25_Witness ==
    /\ last.api = "GetQuery" /\ last.err = OK /\ last.eof
    /\ last.q.Limit <= 0 /\ last.q.FieldPaths = <<>>
    /\ Len(last.q.Filters) = 2
    /\ Cardinality(DOMAIN last.pre.docs) = 3
    /\ Len(last.got) = 1

(***************************************************************************)
(* C26: with an order-by field the documents come in ascending or in       *)
(* descending order of that field, as asked; with a limit n > 0 the query  *)
(* yields the lesser of n and the number of matching documents, and with a *)
(* limit that is not positive all of them.                                 *)
(***************************************************************************)
C26_OrderAndLimit ==
    (last.api = "GetQuery" /\ last.err = OK /\ last.q.FieldPaths = <<>>) =>
        /\ last.q.OrderByField # "" =>
              \A i, j \in DOMAIN last.got :
                 i < j =>
                    IF last.q.OrderAscending
                    THEN ~Before(last.got[j][last.q.OrderByField],
                                 last.got[i][last.q.OrderByField])
                    ELSE ~Before(last.got[i][last.q.OrderByField],
                                 last.got[j][last.q.OrderByField])
        /\ last.eof =>
              Len(last.got) =
                 IF last.q.Limit > 0 /\ last.q.Limit < Cardinality(Matches)
                 THEN last.q.Limit ELSE Cardinality(Matches)

\* A descending query with a limit of two on three documents.
C26_Witness ==
    /\ last.api = "GetQuery" /\ last.err = OK /\ last.eof
    /\ last.q.OrderByField = "n" /\ ~last.q.OrderAscending
    /\ last.q.Limit = 2 /\ Cardinality(Matches) = 3
    /\ Len(last.got) = 2
    /\ last.got[1]["n"].v > last.got[2]["n"].v

(***************************************************************************)
(* C27: a delete-query removes the documents that satisfy its filters and  *)
(* leaves the others as they were, so that one without filters empties the *)
(* collection; a delete-query with a limit returns an error and deletes    *)
(* nothing.                                                                *)
(***************************************************************************)
C27_DeleteQuery ==
    last.api = "DeleteQuery" =>
        /\ last.q.Limit > 0 => (last.err # OK /\ Unchanged)
        /\ (last.q.Limit <= 0 /\ AllComparable) => last.err = OK
        /\ last.err = OK =>
              /\ \A k \in DOMAIN last.pre.docs :
                    IF last.pre.docs[k] \in Matches THEN k \notin DOMAIN docs
                    ELSE k \in DOMAIN docs /\ docs[k] = last.pre.docs[k]
              /\ DOMAIN docs \subseteq DOMAIN last.pre.docs
              /\ last.q.Filters = <<>> => docs = NilMap
              /\ curRevision = last.pre.curRevision

\* A delete-query that removed one of three documents.
C27_Witness ==
    /\ last.api = "DeleteQuery" /\ last.err = OK
    /\ last.q.Filters # <<>>
    /\ Cardinality(DOMAIN last.pre.docs) = 3
    /\ Cardinality(DOMAIN docs) = 2

(***************************************************************************)
(* URLOpener: OpenCollectionURL takes the collection name from the URL's   *)
(* host and the key field from its path, and under the opener's mutex      *)
(* looks the name up in the collections map: a name that is not there gets *)
(* a new collection, one that is there returns its collection when the key *)
(* field is the same and an error when it is not.                          *)
(***************************************************************************)
\* fmt.Errorf: an error that is not a gcerr.Error; ErrorCode is the code
\* that gcerrors.Code gives an error.
Errorf == "fmt.Errorf"
Unknown == "Unknown"
ErrorCode(e) == IF e = Errorf THEN Unknown ELSE e

\* A URL: the host, the path as its sequence of slashes and names, and the
\* names of the query parameters.
URL(host, path, query) == [Host |-> host, Path |-> path, Query |-> query]
OpenURLs ==
    {URL(h, <<"/", k>>, {}) : h \in {"c", "d"}, k \in {KeyField, "other"}}
    \cup { URL("c", <<KeyField>>, {}), URL("", <<"/", KeyField>>, {}),
           URL("c", <<>>, {}), URL("c", <<"/">>, {}),
           URL("c", <<"/", "a", "/", "b">>, {}), URL("c", <<"/", KeyField>>, {"x"}) }

\* The key name: the path without its leading slash.
keyNameOf(path) == IF path # <<>> /\ Head(path) = "/" THEN Tail(path) ELSE path
\* The checks of the URL before the lock is taken.
urlError(u) ==
    IF u.Query # {} THEN Errorf
    ELSE IF u.Host = "" THEN Errorf
    ELSE IF keyNameOf(u.Path) = <<>>
            \/ \E i \in DOMAIN keyNameOf(u.Path) : keyNameOf(u.Path)[i] = "/"
    THEN Errorf
    ELSE OK

Callers == {"g1", "g2"}
IdleCall == [pc |-> "idle"]
\* A call that has returned the collection h and the error e; pre is
\* the collections map when it took the lock.
Returns(c, h, e) ==
    [pc |-> "done", collName |-> c.collName, keyName |-> c.keyName, coll |-> h,
     err |-> e, pre |-> opener.collections]

InitOpen ==
    /\ docs = NilMap
    /\ curRevision = 0
    /\ log = <<>>
    /\ last = NoCall
    /\ opts = [MaxOutstandingActionRPCs |-> 0]
    /\ run = NoRun
    /\ opener = [NoOpener EXCEPT !.calls = [g \in Callers |-> IdleCall]]
    /\ mu = NoMutex
    /\ sql = NoDialers

\* The call up to the lock: a URL that fails the checks returns an error.
Parsed(g, u) ==
    IF urlError(u) # OK
    THEN [opener EXCEPT !.calls[g] =
             Returns([collName |-> u.Host, keyName |-> keyNameOf(u.Path)], 0, urlError(u))]
    ELSE [opener EXCEPT !.calls[g] =
             [pc |-> "lock", collName |-> u.Host, keyName |-> keyNameOf(u.Path)]]
OpenCollectionURL ==
    /\ \E g \in Callers :
         /\ opener.calls[g].pc \in {"idle", "done"}
         /\ \E u \in OpenURLs : opener' = Parsed(g, u)
    /\ UNCHANGED <<docs, curRevision, log, last, opts, run, mu, sql>>

\* ucoll, ok := o.collections[collName]
\* A lookup that never finds the name.
lookup_Miss(collections, collName) == FALSE
lookup(collections, collName) == collName \in DOMAIN collections
\* ucoll.keyName != keyName
\* A comparison that accepts any key name.
keyMismatch_Never(ucoll, keyName) == FALSE
keyMismatch(ucoll, keyName) == ucoll.keyName # keyName

\* OpenCollection: a new, empty collection; it is the next of the stores.
OpenCollection(keyName) == [docs |-> NilMap, curRevision |-> 0, keyField |-> keyName]
returnedWith(c, h) ==
    opener.returned \cup {[collName |-> c.collName, keyName |-> c.keyName, coll |-> h]}

\* The call under the lock.
Opened(g, c) ==
    IF ~lookup(opener.collections, c.collName)
    THEN [opener EXCEPT
             !.stores = Append(@, OpenCollection(c.keyName)),
             !.collections = SetField(@, c.collName,
                                      [keyName |-> c.keyName, coll |-> Len(opener.stores) + 1]),
             !.calls[g] = Returns(c, Len(opener.stores) + 1, OK),
             !.returned = returnedWith(c, Len(opener.stores) + 1)]
    ELSE IF keyMismatch(opener.collections[c.collName], c.keyName)
    THEN [opener EXCEPT !.calls[g] = Returns(c, 0, Errorf)]
    ELSE [opener EXCEPT
             !.calls[g] = Returns(c, opener.collections[c.collName].coll, OK),
             !.returned = returnedWith(c, opener.collections[c.collName].coll)]
Locked ==
    /\ \E g \in Callers :
         /\ opener.calls[g].pc = "lock"
         /\ opener' = Opened(g, opener.calls[g])
    /\ UNCHANGED <<docs, curRevision, log, last, opts, run, mu, sql>>

\* A Put through a collection that a call has returned.
PutThrough(g, r) ==
    /\ r.err = OK
    /\ r.curRevision <= MaxRev
    /\ opener' = [opener EXCEPT !.stores[opener.calls[g].coll] =
                     [docs |-> r.docs, curRevision |-> r.curRevision,
                      keyField |-> opener.calls[g].keyName]]
WriteThrough ==
    /\ \E g \in Callers :
         /\ opener.calls[g].pc = "done" /\ opener.calls[g].err = OK
         /\ opener.calls[g].keyName = <<KeyField>>
         /\ \E k \in Keys :
              PutThrough(g, runAction(opener.stores[opener.calls[g].coll],
                                      Action(Put, UserDoc(k, Str("a"), Nil, Nil), <<>>), Nil))
    /\ UNCHANGED <<docs, curRevision, log, last, opts, run, mu, sql>>

NextOpen ==
    \/ OpenCollectionURL
    \/ Locked
    \/ WriteThrough

SpecOpen == InitOpen /\ [][NextOpen]_vars

(***************************************************************************)
(* C28: however the calls of OpenCollectionURL on one opener interleave,   *)
(* the calls with one collection name and one key field return the same    *)
(* collection, the opener creates one collection for each name it has      *)
(* registered and no more, and so what is written through one returned     *)
(* collection is what the others hold.                                     *)
(***************************************************************************)
C28_SameCollection ==
    /\ \A r1, r2 \in opener.returned :
          (r1.collName = r2.collName /\ r1.keyName = r2.keyName) => r1.coll = r2.coll
    /\ Len(opener.stores) = Cardinality(DOMAIN opener.collections)
    /\ \A r \in opener.returned :
          /\ r.collName \in DOMAIN opener.collections
          /\ r.coll = opener.collections[r.collName].coll
          /\ r.coll \in DOMAIN opener.stores
    /\ \A g1, g2 \in Callers :
          (/\ opener.calls[g1].pc = "done" /\ opener.calls[g1].err = OK
           /\ opener.calls[g2].pc = "done" /\ opener.calls[g2].err = OK
           /\ opener.calls[g1].collName = opener.calls[g2].collName) =>
              opener.stores[opener.calls[g1].coll] = opener.stores[opener.calls[g2].coll]

\* Two callers hold the collection of one name, which has a document, and
\* a second name has a collection of its own.
C28_Witness ==
    /\ opener.calls["g1"].pc = "done" /\ opener.calls["g1"].err = OK
    /\ opener.calls["g2"].pc = "done" /\ opener.calls["g2"].err = OK
    /\ opener.calls["g1"].collName = opener.calls["g2"].collName
    /\ opener.calls["g1"].pre # opener.calls["g2"].pre
    /\ opener.stores[opener.calls["g1"].coll].docs # NilMap
    /\ Len(opener.stores) = 2

(***************************************************************************)
(* C29: a call that names a registered collection with another key field   *)
(* fails, and the registry is as it was: the name keeps its key field and  *)
(* its collection, which the calls with the original key field return.     *)
(* As claimed, the error's code is InvalidArgument; as amended, the error  *)
(* is a plain one, whose code is not InvalidArgument.                      *)
(***************************************************************************)
Mismatched(c) ==
    /\ c.pc = "done"
    /\ c.collName \in DOMAIN c.pre
    /\ Len(c.keyName) = 1 /\ c.keyName # <<"/">>
    /\ c.pre[c.collName].keyName # c.keyName
RegistryKept(c) ==
    /\ opener.collections[c.collName] = c.pre[c.collName]
    /\ \A r \in opener.returned :
          r.collName = c.collName =>
             r.keyName = c.pre[c.collName].keyName /\ r.coll = c.pre[c.collName].coll
C30_FirstFailureOnly ==
    /\ (run.pc = "returned" /\ run.alerr # <<>>) => Len(run.alerr) = 1
    /\ \A i \in run.finished :
          run.errs[i] # OK => \A j \in run.started : GroupOf(j) <= GroupOf(i)

C38_NoNilKey ==
    /\ Nil \notin DOMAIN docs
    /\ (last.api = "RunActions" /\ last.a.Key = Nil /\ last.a.Kind \in NoKeyKinds) =>
          DOMAIN docs \subseteq DOMAIN last.pre.docs

(***************************************************************************)
(* C39: the revision counter increases by exactly 1 in every successful    *)
(* Create, Put, Replace and Update and is left as it was by every Get,     *)
(* every Delete and every action that returns an error; so the counter     *)
(* equals the number of successful writes made on the collection.          *)
(***************************************************************************)
Stamped == last.err = OK /\ last.a.Kind \in Stamping
C39_CounterCountsWrites ==
    /\ curRevision = Len(log)
    /\ last.api # "none" =>
          curRevision = last.pre.curRevision + (IF Stamped THEN 1 ELSE 0)

\* A successful Delete of a stored document after two writes.
C39_Witness ==
    /\ last.a.Kind = Delete
    /\ last.err = OK
    /\ last.a.Key \in DOMAIN last.pre.docs
    /\ curRevision = 2

(***************************************************************************)
(* C35: an Update with a set of a nested field path whose intermediate     *)
(* field the stored document does not have creates the path and sets the   *)
(* value there; it ends without a fault, and when it fails it leaves the   *)
(* document as it was.                                                     *)
(***************************************************************************)
NestedSets ==
    {i \in DOMAIN last.a.Mods :
        /\ Len(last.a.Mods[i].FieldPath) = 2
        /\ last.a.Mods[i].Value # Nil
        /\ last.a.Mods[i].Value.t # "IncOp"
        /\ GetField(StoredBefore, last.a.Mods[i].FieldPath[1]) = Nil}
C35_SetCreatesPath ==
    (/\ last.api = "RunActions"
     /\ last.a.Kind = Update
     /\ ExistedBefore
     /\ RevisionPasses
     /\ NestedSets # {}) =>
        /\ last.err # Panic
        /\ FailingMods = {} =>
              /\ last.err = OK
              /\ \A i \in NestedSets :
                    ValueAt(docs[last.a.Key], last.a.Mods[i].FieldPath) = last.a.Mods[i].Value
        /\ last.err # OK => Unchanged

(***************************************************************************)
(* C34: for every action list, also one with several writes of one key,    *)
(* no two actions with the same key are in one group, so no two actions on *)
(* one key of a RunActions call are in execution at the same time.         *)
(***************************************************************************)
SameKey(i, j) == i # j /\ run.actions[i].Key = run.actions[j].Key
MaxPath == 3
PathFields == <<"m", "x", "y", "z">>
\* The maps: a string s, and m absent, a string, or a map whose x is
\* absent, a number, an empty map or a map with y.
InnerMaps ==
    {NilMap, SetField(NilMap, "x", Int64(1)), SetField(NilMap, "x", MapVal(NilMap)),
     SetField(NilMap, "x", MapVal(SetField(NilMap, "y", Int64(1))))}
PathMaps ==
    {SetField(NilMap, "s", Str("a")),
     SetField(SetField(NilMap, "s", Str("a")), "m", Str("b"))} \cup
    {SetField(SetField(NilMap, "s", Str("a")), "m", MapVal(i)) : i \in InnerMaps}
Paths == {SubSeq(PathFields, 1, n) : n \in 1..MaxPath} \cup {<<"s">>, <<"s", "x">>}
PathValues == {Int64(2), Str("b"), MapVal(NilMap)}

InitPath ==
    /\ docs = NilMap
    /\ curRevision = 0
    /\ log = <<>>
    /\ last \in {[api |-> "input", m |-> m, fp |-> fp, val |-> val, err |-> OK, out |-> m] :
                    m \in PathMaps, fp \in Paths, val \in PathValues}
    /\ opts = [MaxOutstandingActionRPCs |-> 0]
    /\ run = NoRun
    /\ opener = NoOpener
    /\ mu = NoMutex
    /\ sql = NoDialers

\* The call of setAtFieldPath on the drawn map, which it changes in place.
SetAtFieldPath ==
    /\ last.api = "input"
    /\ last' = [last EXCEPT !.api = "setAtFieldPath",
                            !.err = setAtFieldPath(last.m, last.fp, last.val).err,
                            !.out = setAtFieldPath(last.m, last.fp, last.val).m]
    /\ UNCHANGED <<docs, curRevision, log, opts, run, opener, mu, sql>>

NextPath ==
    \/ SetAtFieldPath

SpecPath == InitPath /\ [][NextPath]_vars

(***************************************************************************)
(* C36: setAtFieldPath puts a fresh empty map at each intermediate field   *)
(* that is absent and stores the value, so that getAtFieldPath returns it; *)
(* when an intermediate field has a value that is not a map it fails with  *)
(* InvalidArgument and leaves the map exactly as it was.                   *)
(***************************************************************************)
\* The value of m at the path fp; Nil when a field on the way is absent or
\* is not a map.
RECURSIVE Reads(_, _)
Reads(m, fp) ==
    IF GetField(m, Head(fp)) = Nil THEN Nil
    ELSE IF Len(fp) = 1 THEN m[Head(fp)]
    ELSE IF m[Head(fp)].t # "map" THEN Nil
    ELSE Reads(m[Head(fp)].v, Tail(fp))
Prefix(fp, n) == SubSeq(fp, 1, n)
\* An intermediate field of the path has a value that is not a map.
Blocked(m, fp) ==
    \E n \in 1..(Len(fp) - 1) :
        Reads(m, Prefix(fp, n)) # Nil /\ Reads(m, Prefix(fp, n)).t # "map"
C36_SetAtFieldPath ==
    last.api = "setAtFieldPath" =>
        IF Blocked(last.m, last.fp)
        THEN last.err = InvalidArgument /\ last.out = last.m
        ELSE /\ last.err = OK
             /\ getAtFieldPath(last.out, last.fp) = [err |-> OK, val |-> last.val]
             /\ \A n \in 1..(Len(last.fp) - 1) :
                   IF Reads(last.m, Prefix(last.fp, n)) = Nil
                   THEN /\ Reads(last.out, Prefix(last.fp, n)).t = "map"
                        /\ DOMAIN Reads(last.out, Prefix(last.fp, n)).v = {last.fp[n + 1]}
                   ELSE DOMAIN Reads(last.out, Prefix(last.fp, n)).v =
                           DOMAIN Reads(last.m, Prefix(last.fp, n)).v \cup {last.fp[n + 1]}
             /\ \A f \in (DOMAIN last.m \cup DOMAIN last.out) \ {last.fp[1]} :
                   GetField(last.out, f) = GetField(last.m, f)

\* A value set at m.x.y in a map that has no m: two maps are created.
C36_Witness ==
    /\ last.api = "setAtFieldPath"
    /\ last.fp = <<"m", "x", "y">>
    /\ "m" \notin DOMAIN last.m
    /\ last.err = OK
    /\ last.out["m"] = MapVal(SetField(NilMap, "x", MapVal(SetField(NilMap, "y", last.val))))

\* A value set at m.x.y in a map whose m.x is a number.
C36_Refused ==
    /\ last.api = "setAtFieldPath"
    /\ last.fp = <<"m", "x", "y">>
    /\ GetField(last.m, "m") = MapVal(SetField(NilMap, "x", Int64(1)))
    /\ last.err = InvalidArgument

(***************************************************************************)
(* Package cloudmysql (specification SpecMySQL).  A string is a sequence   *)
(* of characters; a URL is drawn, instanceFromURL is applied to it, and    *)
(* OpenMySQLURL is called on it.                                           *)
(***************************************************************************)
MaxURL == 8
MaxOpens == 2
PathChars == {"/", "a"}
RECURSIVE Strings(_)
Strings(n) ==
    IF n = 0 THEN {<<>>}
    ELSE Strings(n - 1) \cup {Append(t, c) : t \in {x \in Strings(n - 1) : Len(x) = n - 1},
                                            c \in PathChars}
\* The URLs: a host that is empty or a name, and a path that is empty or
\* starts with a slash.
MySQLURLs ==
    {[Host |-> h, Path |-> p] :
        h \in {<<>>, <<"p">>},
        p \in {<<>>} \cup {<<"/">> \o t : t \in Strings(MaxURL - 1)}}

\* strings.SplitN(s, "/", n) for n > 0: at most n parts, the last one the
\* rest of s.
RECURSIVE SplitN(_, _)
SplitN(s, n) ==
    IF n = 1 \/ \A i \in 1..Len(s) : s[i] # "/" THEN <<s>>
    ELSE LET i == CHOOSE i \in 1..Len(s) : s[i] = "/" /\ \A j \in 1..(i - 1) : s[j] # "/"
         IN  <<SubSeq(s, 1, i - 1)>> \o SplitN(SubSeq(s, i + 1, Len(s)), n - 1)

\* instanceFromURL on the parts of the host and path.
\* An instanceFromURL that splits at every slash.
instanceFromParts_SplitAll(parts) ==
    IF Len(parts) < 4 \/ \E i \in 1..Len(parts) : parts[i] = <<>>
    THEN [instance |-> <<>>, db |-> <<>>, err |-> Errorf]
    ELSE [instance |-> parts[1] \o <<":">> \o parts[2] \o <<":">> \o parts[3],
          db |-> SplitN(parts[4], MaxURL + 2)[1], err |-> OK]
instanceFromParts(parts) ==
    IF Len(parts) < 4 \/ \E i \in 1..Len(parts) : parts[i] = <<>>
    THEN [instance |-> <<>>, db |-> <<>>, err |-> Errorf]
    ELSE [instance |-> parts[1] \o <<":">> \o parts[2] \o <<":">> \o parts[3],
          db |-> parts[4], err |-> OK]
instanceFromURL(u) == instanceFromParts(SplitN(u.Host \o u.Path, 4))

InitMySQL ==
    /\ docs = NilMap
    /\ curRevision = 0
    /\ log = <<>>
    /\ last = NoCall
    /\ opts = [MaxOutstandingActionRPCs |-> 0]
    /\ run = NoRun
    /\ opener = NoOpener
    /\ mu = NoMutex
    /\ sql \in {[NoDialers EXCEPT !.u = u, !.CertSource = c] :
                   u \in MySQLURLs, c \in {"nil", "certs"}}

\* The test's call of instanceFromURL on the URL.
InstanceFromURL ==
    /\ sql.parsed = <<>>
    /\ sql' = [sql EXCEPT !.parsed = <<instanceFromURL(sql.u)>>]
    /\ UNCHANGED <<docs, curRevision, log, last, opts, run, opener, mu>>

\* fmt.Sprintf("gocloud.dev/mysql/gcpmysql/%d", dialerNum)
DialerName(dialerNum) == <<"gocloud.dev/mysql/gcpmysql/", dialerNum>>
\* mysql.RegisterDial: the dial function registered under the name, in the
\* place of the one that was.
RegisterDial(dials, name, dial) ==
    [x \in DOMAIN dials \cup {name} |-> IF x = name THEN dial ELSE dials[x]]
\* What a call returns: an error, or a database whose configuration names
\* the dialer; client is the proxy.Client the call made.
Failed(q) ==
    [q EXCEPT !.opens = Append(@, [err |-> Errorf, Net |-> <<>>, Addr |-> <<>>,
                                   DBName |-> <<>>, client |-> 0])]
Registered(q, r, dialerNum, client) ==
    [q EXCEPT !.dials = RegisterDial(@, DialerName(dialerNum), client),
              !.opens = Append(@, [err |-> OK, Net |-> DialerName(dialerNum),
                                   Addr |-> r.instance, DBName |-> r.db, client |-> client])]
opened(q, r) ==
    IF q.CertSource = "nil" \/ r.err # OK THEN Failed(q)
    ELSE Registered(q, r, q.dialerCounter.n, Len(q.opens) + 1)
OpenMySQLURL ==
    /\ Len(sql.opens) < MaxOpens
    /\ sql' = opened(sql, instanceFromURL(sql.u))
    /\ UNCHANGED <<docs, curRevision, log, last, opts, run, opener, mu>>

NextMySQL ==
    \/ InstanceFromURL
    \/ OpenMySQLURL

SpecMySQL == InitMySQL /\ [][NextMySQL]_vars

(***************************************************************************)
(* C32: instanceFromURL splits host and path at the first three slashes    *)
(* into project, region, instance and database name, the database name     *)
(* being all that follows the third slash, slashes included; it returns    *)
(* project:region:instance and the database name, and an error exactly     *)
(* when there are fewer than four parts or one of the four is empty.       *)
(***************************************************************************)
HostPath == sql.u.Host \o sql.u.Path
Slashes == {i \in 1..Len(HostPath) : HostPath[i] = "/"}
Slash(k) == CHOOSE i \in Slashes : Cardinality({j \in Slashes : j < i}) = k - 1
Between(a, b) == SubSeq(HostPath, a + 1, b - 1)
FourParts ==
    /\ Cardinality(Slashes) >= 3
    /\ Slash(1) > 1
    /\ Slash(2) > Slash(1) + 1
    /\ Slash(3) > Slash(2) + 1
    /\ Slash(3) < Len(HostPath)
C32_InstanceFromURL ==
    sql.parsed # <<>> =>
        IF FourParts
        THEN /\ sql.parsed[1].err = OK
             /\ sql.parsed[1].instance =
                   Between(0, Slash(1)) \o <<":">> \o Between(Slash(1), Slash(2)) \o <<":">>
                      \o Between(Slash(2), Slash(3))
             /\ sql.parsed[1].db = Between(Slash(3), Len(HostPath) + 1)
        ELSE sql.parsed[1].err # OK

\* A database name with a slash in it.
C32_Witness ==
    /\ sql.parsed # <<>>
    /\ sql.parsed[1].err = OK
    /\ sql.parsed[1].instance = <<"p", ":", "a", ":", "a">>
    /\ sql.parsed[1].db = <<"a", "/", "a">>

(***************************************************************************)
(* C40: each call of OpenMySQLURL registers its dialer under a name that   *)
(* no earlier call used, so that a later call never replaces the dialer    *)
(* registered for an earlier connection.                                   *)
(***************************************************************************)
C40_FreshDialerNames ==
    \A i, j \in DOMAIN sql.opens :
        (i < j /\ sql.opens[i].err = OK /\ sql.opens[j].err = OK) =>
            /\ sql.opens[i].Net # sql.opens[j].Net
            /\ sql.dials[sql.opens[i].Net] = sql.opens[i].client

(***************************************************************************)
(* Concurrent RunActions calls on one collection (specification            *)
(* SpecMutex).  Each goroutine takes the throttle of its call, locks the   *)
(* collection's mutex, looks up the current document, executes the action  *)
(* and unlocks; the steps of the goroutines of all calls interleave.       *)
(***************************************************************************)
CallIds == {"c1", "c2"}
Positions == {1, 2}
\* The lists of the callers: a write followed by a get of its key, a get
\* followed by a delete of its key, and two writes, which share a group.
ConcurrentLists ==
    { <<Action(Create, UserDoc(Str("k1"), Str("b"), Nil, Nil), <<>>),
        Action(Get, UserDoc(Str("k1"), Nil, Nil, Nil), <<>>)>>,
      <<Action(Get, UserDoc(Str("k1"), Nil, Nil, Nil), <<>>),
        Action(Delete, UserDoc(Str("k1"), Nil, Nil, Nil), <<>>)>>,
      <<Action(Create, UserDoc(Str("k2"), Str("a"), Nil, Nil), <<>>),
        Action(Put, UserDoc(Str("k1"), Str("b"), Str("a"), Nil), <<>>)>> }

IdleRun ==
    [pc |-> "idle", actions |-> <<>>, groups |-> <<{}, {}, {}, {}>>, g |-> 1,
     started |-> {}, finished |-> {}, errs |-> <<>>, Docs |-> <<>>, seen |-> <<>>]

InitMutex ==
    /\ \E c \in {[docs |-> NilMap, curRevision |-> 0], Seeded} :
         /\ docs = c.docs
         /\ curRevision = c.curRevision
         /\ log = [i \in 1..c.curRevision |->
                    [Key |-> Str("k1"), Rev |-> Int64(i), Counter |-> i]]
         /\ mu = [locked |-> FALSE, inside |-> {}, calls |-> [id \in CallIds |-> IdleRun],
                  pre |-> c]
    /\ last = NoCall
    /\ opts \in {[MaxOutstandingActionRPCs |-> n] : n \in 0..MaxOutstanding}
    /\ run = NoRun
    /\ opener = NoOpener
    /\ sql = NoDialers

\* The first group from g on that has an action; 5 when there is none.
RunFrom(groups, g) ==
    IF \E h \in g..4 : groups[h] # {}
    THEN CHOOSE h \in g..4 : groups[h] # {} /\ \A k \in g..(h - 1) : groups[k] = {}
    ELSE 5
\* The call after the groups before g: it runs group g, or it returns.
Runs(r, g) == [r EXCEPT !.g = g, !.pc = IF g > 4 THEN "returned" ELSE "running"]

\* RunActions called by id: the groups are made and the first group that has
\* an action is run.
Started(as) ==
    Runs([IdleRun EXCEPT !.actions = as, !.groups = GroupActions(as),
                         !.errs = [i \in 1..Len(as) |-> OK],
                         !.Docs = [i \in 1..Len(as) |-> as[i].Doc]],
         RunFrom(GroupActions(as), 1))
RunActionsBy(id) ==
    /\ mu.calls[id].pc = "idle"
    /\ \E as \in ConcurrentLists : mu' = [mu EXCEPT !.calls[id] = Started(as)]
    /\ UNCHANGED <<docs, curRevision, log, last, opts, run, opener, sql>>

\* t.Acquire and the go statement for the action at position i of the group
\* that the call runs.
AcquireBy(id, i) ==
    /\ mu.calls[id].pc = "running"
    /\ i \in mu.calls[id].groups[mu.calls[id].g] \ mu.calls[id].started
    /\ \A j \in mu.calls[id].groups[mu.calls[id].g] \ mu.calls[id].started : i <= j
    /\ ThrottleFree(opts.MaxOutstandingActionRPCs,
                    Cardinality(mu.calls[id].started \ mu.calls[id].finished))
    /\ mu' = [mu EXCEPT !.calls[id].started = @ \cup {i}]
    /\ UNCHANGED <<docs, curRevision, log, last, opts, run, opener, sql>>

\* c.mu.Lock() returns when the mutex is not locked, and c.mu.Unlock()
\* leaves it unlocked.
\* A Lock that returns whether or not the mutex is locked.
CanLock_Always(locked) == TRUE
CanLock(locked) == ~locked
\* An Unlock that leaves the mutex as it is.
Unlock_Held(locked) == locked
Unlock(locked) == FALSE

\* runAction up to the lock, in the goroutine of the action at position i:
\* the context is not canceled, and the mutex is locked.
LockBy(id, i) ==
    /\ i \in mu.calls[id].started \ mu.calls[id].finished
    /\ <<id, i>> \notin mu.inside
    /\ CanLock(mu.locked)
    /\ mu' = [mu EXCEPT !.locked = TRUE, !.inside = @ \cup {<<id, i>>}]
    /\ UNCHANGED <<docs, curRevision, log, last, opts, run, opener, sql>>

\* The lookup of the current document, under the lock: the goroutine has
\* seen the collection.
LookupBy(id, i) ==
    /\ <<id, i>> \in mu.inside
    /\ i \notin DOMAIN mu.calls[id].seen
    /\ mu' = [mu EXCEPT !.calls[id].seen =
                           [x \in DOMAIN @ \cup {i} |-> IF x = i THEN coll ELSE @[x]]]
    /\ UNCHANGED <<docs, curRevision, log, last, opts, run, opener, sql>>

\* The rest of runAction on what the goroutine has seen, the deferred
\* Unlock, the store into errs and t.Release.
Unlocked(id, i, a, r) ==
    /\ docs' = r.docs
    /\ curRevision' = r.curRevision
    /\ log' = Logged(a, r)
    /\ mu' = [mu EXCEPT !.locked = Unlock(@), !.inside = @ \ {<<id, i>>},
                        !.calls[id].finished = @ \cup {i},
                        !.calls[id].errs[i] = r.err,
                        !.calls[id].Docs[i] = r.Doc]
    /\ UNCHANGED <<last, opts, run, opener, sql>>
UnlockBy(id, i) ==
    /\ <<id, i>> \in mu.inside
    /\ i \in DOMAIN mu.calls[id].seen
    /\ Unlocked(id, i, mu.calls[id].actions[i],
                runAction(mu.calls[id].seen[i], mu.calls[id].actions[i], Nil))

\* t.Wait returns when every goroutine of the group has finished; the next
\* group that has an action is run, and after the last RunActions returns.
WaitBy(id) ==
    /\ mu.calls[id].pc = "running"
    /\ mu.calls[id].groups[mu.calls[id].g] \subseteq mu.calls[id].finished
    /\ mu' = [mu EXCEPT !.calls[id] = Runs(@, RunFrom(@.groups, @.g + 1))]
    /\ UNCHANGED <<docs, curRevision, log, last, opts, run, opener, sql>>

NextMutex ==
    \/ \E id \in CallIds : RunActionsBy(id)
    \/ \E id \in CallIds, i \in Positions : AcquireBy(id, i)
    \/ \E id \in CallIds, i \in Positions : LockBy(id, i)
    \/ \E id \in CallIds, i \in Positions : LookupBy(id, i)
    \/ \E id \in CallIds, i \in Positions : UnlockBy(id, i)
    \/ \E id \in CallIds : WaitBy(id)

SpecMutex == InitMutex /\ [][NextMutex]_vars
\* The goroutines and the callers are scheduled: a step that can be taken
\* is taken.
FairMutex == SpecMutex /\ WF_vars(NextMutex)

(***************************************************************************)
(* C33: when several RunActions calls, or several actions of one group,    *)
(* run on one collection, at most one action is in the critical section at *)
(* any time, and the stored documents, the revisions and the results of    *)
(* the actions are those of the actions executed one at a time in some     *)
(* order.                                                                  *)
(***************************************************************************)
Executed == {p \in CallIds \X Positions : p[2] \in mu.calls[p[1]].finished}
\* The actions of the set todo, executed one at a time in some order from
\* the collection c, give the results the actions have and the collection
\* as it is.
RECURSIVE InSomeOrder(_, _)
InSomeOrder(c, todo) ==
    IF todo = {} THEN c = coll
    ELSE \E p \in todo :
            LET r == runAction(c, mu.calls[p[1]].actions[p[2]], Nil)
            IN  /\ r.err = mu.calls[p[1]].errs[p[2]]
                /\ r.Doc = mu.calls[p[1]].Docs[p[2]]
                /\ InSomeOrder([docs |-> r.docs, curRevision |-> r.curRevision], todo \ {p})
C33_Serialized ==
    /\ Cardinality(mu.inside) <= 1
    /\ mu.inside = {} => InSomeOrder(mu.pre, Executed)

\* Both calls have returned; the two writes of one call and the write of
\* the other were in execution together.
C33_Witness ==
    /\ \A id \in CallIds : mu.calls[id].pc = "returned"
    /\ Cardinality(Executed) = 4
    /\ mu.calls["c1"].actions[2].Kind = Put
    /\ mu.calls["c2"].actions[1].Kind = Create
    /\ mu.calls["c2"].errs[1] = AlreadyExists

(***************************************************************************)
(* C37: with fair scheduling every RunActions call returns, whatever the   *)
(* list and MaxOutstandingActionRPCs (1 included), with every action of    *)
(* the list executed or given an error; the throttle and the mutex never   *)
(* deadlock, also when several calls run on one collection.                *)
(***************************************************************************)
Returned37(id) ==
    /\ mu.calls[id].pc = "returned"
    /\ mu.calls[id].finished = DOMAIN mu.calls[id].actions
C37_EveryCallReturns ==
    \A id \in CallIds : (mu.calls[id].pc = "running") ~> Returned37(id)

\* Two calls with a throttle of one have returned, one of them with two
\* writes in one group.
C37_Witness ==
    /\ opts.MaxOutstandingActionRPCs = 1
    /\ \A id \in CallIds : Returned37(id)
    /\ mu.calls["c1"].groups[3] = {1, 2}
    /\ ~mu.locked

====
